---- MODULE Spec2Model ----
(***************************************************************************)
(* A model of the tork governance core: the PII redactor                   *)
(* (tork/core/redactor.py), the receipt generator                          *)
(* (tork/compliance/receipts.py) and the governance engine                 *)
(* (tork/core/engine.py).  Each component has its own specification over   *)
(* its own variables; the variables of the other components stay at their  *)
(* initial values.                                                         *)
(***************************************************************************)
EXTENDS Integers, Sequences, FiniteSets, TLC

VARIABLES
    r_text,         \* redact_text: the input text, a sequence of symbols
    r_enabled,      \* PIIRedactor.enabled_types
    r_all_matches,  \* redact_text: all_matches as the detectors fill it
    r_result        \* redact_text: the RedactionResult, or None

rvars == <<r_text, r_enabled, r_all_matches, r_result>>

VARIABLES
    rc_signing_key, \* ReceiptGenerator.signing_key of the generator in use
    rc_genuine,     \* the receipt as create_receipt returned it, or None
    rc_receipt,     \* the receipt as later presented to verify, or None
    rc_tampered,    \* the field changed since creation, or None
    rc_verified,    \* verify on the generator that created the receipt
    rc_other_verified   \* verify on a generator with another key: key, result

rcvars == <<rc_signing_key, rc_genuine, rc_receipt, rc_tampered, rc_verified,
            rc_other_verified>>

VARIABLES
    e_policies,               \* GovernanceEngine._policies, in insertion order
    e_pii_redactor,           \* GovernanceEngine.pii_redactor, or None
    e_enable_auto_redaction,  \* GovernanceEngine.enable_auto_redaction
    e_call                    \* the last call on the engine and how it ended

evars == <<e_policies, e_pii_redactor, e_enable_auto_redaction, e_call>>

VARIABLES
    card_number,    \* _luhn_check: its argument, a sequence of characters
    luhn_result     \* _luhn_check: Some(the value returned), or None

lvars == <<card_number, luhn_result>>

VARIABLES
    d_enabled,      \* redact_dict: enabled_types of the redactor
    d_data,         \* redact_dict: the input map as the caller holds it
    d_call          \* redact_dict: the call made and what it returned, or None

dvars == <<d_enabled, d_data, d_call>>

VARIABLES
    w_workflow,           \* the WorkflowDefinition handed to execute
    w_paused_workflows,   \* WorkflowEngine._paused_workflows
    w_call                \* the last call on the workflow engine and its run

wvars == <<w_workflow, w_paused_workflows, w_call>>

VARIABLES
    a_agents,         \* ACLRouter._agents: the registered agent ids
    a_conversations,  \* ACLRouter._conversations, by conversation id
    a_call            \* the last call on the router and how it ended

avars == <<a_agents, a_conversations, a_call>>

VARIABLES
    j_now,             \* the clock read by jwt.decode and datetime.now
    j_revoked_tokens,  \* JWTHandler._revoked_tokens
    j_call             \* the last call on the handler and how it ended

jvars == <<j_now, j_revoked_tokens, j_call>>

VARIABLES
    c_enable_auto_redaction,  \* GovernanceEngine.enable_auto_redaction
    c_initial,                \* the flag before the first call began
    c_pc,                     \* where each evaluate_with_redaction call is
    c_locals                  \* each call: original_auto_redaction, and the
                              \* flag as its evaluate found it

cvars == <<c_enable_auto_redaction, c_initial, c_pc, c_locals>>

vars == <<rvars, rcvars, evars, lvars, dvars, wvars, avars, jvars, cvars>>

\* The variables of the other components, for each component.
not_rvars ==
    <<rcvars, evars, lvars, dvars, wvars, avars, jvars, cvars>>
not_rcvars ==
    <<rvars, evars, lvars, dvars, wvars, avars, jvars, cvars>>
not_evars ==
    <<rvars, rcvars, lvars, dvars, wvars, avars, jvars, cvars>>
not_lvars ==
    <<rvars, rcvars, evars, dvars, wvars, avars, jvars, cvars>>
not_dvars ==
    <<rvars, rcvars, evars, lvars, wvars, avars, jvars, cvars>>
not_wvars ==
    <<rvars, rcvars, evars, lvars, dvars, avars, jvars, cvars>>
not_avars ==
    <<rvars, rcvars, evars, lvars, dvars, wvars, jvars, cvars>>
not_jvars ==
    <<rvars, rcvars, evars, lvars, dvars, wvars, avars, cvars>>
not_cvars ==
    <<rvars, rcvars, evars, lvars, dvars, wvars, avars, jvars>>

None == [kind |-> "None"]

(***************************************************************************)
(* Bounds of the model.                                                    *)
(***************************************************************************)
MaxLen == 3      \* longest text given to redact_text
MaxCands == 3    \* most regex hits the detectors report on one text

(***************************************************************************)
(* Python helpers.                                                         *)
(***************************************************************************)
Min(a, b) == IF a < b THEN a ELSE b
Max(a, b) == IF a > b THEN a ELSE b

\* s[i:j] for 0 <= i, 0 <= j: Python clamps both ends to len(s).
PySlice(s, i, j) ==
    LET lo == Min(i, Len(s))
        hi == Min(j, Len(s))
    IN  IF lo >= hi THEN <<>> ELSE SubSeq(s, lo + 1, hi)

\* list.remove(x): drops the first element equal to x.
RECURSIVE ListRemove(_, _)
ListRemove(s, x) ==
    IF s = <<>> THEN <<>>
    ELSE IF Head(s) = x THEN Tail(s)
    ELSE <<Head(s)>> \o ListRemove(Tail(s), x)

\* sorted(s, key=...) for integer keys: a stable insertion sort of s by the
\* keys in k, where k[i] is the key of s[i].
RECURSIVE InsertSorted(_, _)
InsertSorted(ps, p) ==
    IF ps = <<>> THEN <<p>>
    ELSE IF p.key < Head(ps).key THEN <<p>> \o ps
    ELSE <<Head(ps)>> \o InsertSorted(Tail(ps), p)

RECURSIVE SortPairs(_)
SortPairs(ps) ==
    IF ps = <<>> THEN <<>>
    ELSE InsertSorted(SortPairs(SubSeq(ps, 1, Len(ps) - 1)), ps[Len(ps)])

SortedBy(s, k) ==
    LET ps == SortPairs([i \in 1..Len(s) |-> [key |-> k[i], item |-> s[i]]])
    IN  [i \in 1..Len(s) |-> ps[i].item]

(***************************************************************************)
(* PII redactor.                                                           *)
(*                                                                         *)
(* A text is a sequence of symbols.  "a" is a character some pattern can   *)
(* match; Marker is an occurrence of the literal text "[REDACTED_" in the  *)
(* input, which no pattern matches (no pattern admits "[").  A redaction   *)
(* token [REDACTED_{TYPE}] is the symbol Token(type).                      *)
(***************************************************************************)
PIIType == {"email", "phone", "ssn", "credit_card", "ip_address", "api_key"}

Marker == "[REDACTED_"
Chars == {"a", Marker}

\* f"[REDACTED_{pii_type.value.upper()}]"
Token(t) ==
    CASE t = "email" -> "[REDACTED_EMAIL]"
      [] t = "phone" -> "[REDACTED_PHONE]"
      [] t = "ssn" -> "[REDACTED_SSN]"
      [] t = "credit_card" -> "[REDACTED_CREDIT_CARD]"
      [] t = "ip_address" -> "[REDACTED_IP_ADDRESS]"
      [] t = "api_key" -> "[REDACTED_API_KEY]"

\* The order in which redact_text runs the detectors.
DetectOrder(t) ==
    CASE t = "email" -> 1
      [] t = "phone" -> 2
      [] t = "ssn" -> 3
      [] t = "credit_card" -> 4
      [] t = "ip_address" -> 5
      [] t = "api_key" -> 6

\* A priority table that puts phone above credit_card.
priority_map_phone_first(t) ==
    CASE t = "phone" -> 7
      [] t = "credit_card" -> 6
      [] t = "ssn" -> 5
      [] t = "api_key" -> 4
      [] t = "ip_address" -> 2
      [] t = "email" -> 1


priority_map(t) ==
    CASE t = "credit_card" -> 6
      [] t = "ssn" -> 5
      [] t = "api_key" -> 4
      [] t = "phone" -> 3
      [] t = "ip_address" -> 2
      [] t = "email" -> 1

\* (pii_type, start, end, original) as a detector reports it.
Cand(t, s, e, text) ==
    [pii_type |-> t, start |-> s, end |-> e, original |-> PySlice(text, s, e)]

Intersect(a, b) == ~(a.end <= b.start \/ a.start >= b.end)

\* What re.finditer can report next for type t on text, after the matches
\* already in all_matches: a non-empty span of matchable characters that
\* starts at or after the end of the previous match of the same type.
CanDetect(text, all_matches, c) ==
    /\ c.start < c.end
    /\ c.end <= Len(text)
    /\ \A i \in (c.start + 1)..c.end : text[i] # Marker
    /\ \A i \in 1..Len(all_matches) :
          LET m == all_matches[i]
          IN  /\ DetectOrder(m.pii_type) <= DetectOrder(c.pii_type)
              /\ m.pii_type = c.pii_type => m.end <= c.start

\* The inner loop of _filter_overlapping_matches: index of the first entry
\* of filtered that intersects m, or 0.
FirstOverlap(filtered, m) ==
    LET hits == {i \in 1..Len(filtered) : Intersect(m, filtered[i])}
    IN  IF hits = {} THEN 0 ELSE CHOOSE i \in hits : \A j \in hits : i <= j

\* One pass of the outer loop of _filter_overlapping_matches.
FilterStep(filtered, m) ==
    LET i == FirstOverlap(filtered, m)
    IN  IF i = 0 THEN Append(filtered, m)
        ELSE IF priority_map(m.pii_type) > priority_map(filtered[i].pii_type)
             THEN ListRemove(filtered, filtered[i])
             ELSE filtered

RECURSIVE FilterLoop(_, _)
FilterLoop(filtered, rest) ==
    IF rest = <<>> THEN filtered
    ELSE FilterLoop(FilterStep(filtered, Head(rest)), Tail(rest))

\* key=lambda x: (x[1], -priority_map.get(x[0], 0)), as one integer.
FilterKey(m) == m.start * 8 - priority_map(m.pii_type)

SortForFilter(matches) ==
    SortedBy(matches, [i \in 1..Len(matches) |-> FilterKey(matches[i])])

\* A filter that checks nothing: every candidate survives.
filter_overlapping_matches_keep_all(matches) ==
    SortForFilter(matches)

filter_overlapping_matches(matches) ==
    IF matches = <<>> THEN matches
    ELSE FilterLoop(<<>>, SortForFilter(matches))


PIIMatch(m) ==
    [pii_type |-> m.pii_type, original |-> m.original,
     redacted |-> Token(m.pii_type), start |-> m.start, end |-> m.end]

\* The replacement loop of redact_text over the matches in descending start.
RECURSIVE ApplyRedactions(_, _, _)
ApplyRedactions(redacted_text, matches, todo) ==
    IF todo = <<>>
    THEN [redacted_text |-> redacted_text, matches |-> matches]
    ELSE LET m == Head(todo)
         IN  ApplyRedactions(
                 PySlice(redacted_text, 0, m.start) \o <<Token(m.pii_type)>>
                     \o PySlice(redacted_text, m.end, Len(redacted_text)),
                 <<PIIMatch(m)>> \o matches,
                 Tail(todo))

\* The sort without reverse=True: the replacements then run left to right.
SortByStartDescending_ascending(filtered) ==
    SortedBy(filtered, [i \in 1..Len(filtered) |-> filtered[i].start])


\* filtered.sort(key=lambda x: x[1], reverse=True)
SortByStartDescending(filtered) ==
    SortedBy(filtered, [i \in 1..Len(filtered) |-> 0 - filtered[i].start])

\* RedactionResult(original_text=..., redacted_text=..., matches=...)
RedactionResult(text, done) ==
    [original_text |-> text,
     redacted_text |-> done.redacted_text,
     matches |-> done.matches]

\* redact_text from the filter on; all_matches holds the detectors' hits.
redact_text(text, all_matches) ==
    RedactionResult(text,
        ApplyRedactions(text, <<>>,
            SortByStartDescending(filter_overlapping_matches(all_matches))))

\* str.count("[REDACTED_") on a text of the model.
RECURSIVE CountMarkers(_)
CountMarkers(s) ==
    IF s = <<>> THEN 0
    ELSE (IF Head(s) = Marker \/ Head(s) \in {Token(t) : t \in PIIType} THEN 1 ELSE 0)
         + CountMarkers(Tail(s))

Texts == UNION {[1..n -> Chars] : n \in 0..MaxLen}

EnabledChoices == {PIIType, PIIType \ {"email", "phone"}, {}}

RedactorIdle ==
    /\ r_text = <<>>
    /\ r_enabled = {}
    /\ r_all_matches = <<>>
    /\ r_result = None

ReceiptIdle ==
    /\ rc_signing_key = <<"k">>
    /\ rc_genuine = None
    /\ rc_receipt = None
    /\ rc_tampered = None
    /\ rc_verified = None
    /\ rc_other_verified = None

EngineIdle ==
    /\ e_policies = <<>>
    /\ e_pii_redactor = None
    /\ e_enable_auto_redaction = TRUE
    /\ e_call = None

LuhnIdle ==
    /\ card_number = <<>>
    /\ luhn_result = None

DictIdle ==
    /\ d_enabled = {}
    /\ d_data = None
    /\ d_call = None

WorkflowIdle ==
    /\ w_workflow = None
    /\ w_paused_workflows = None
    /\ w_call = None

RouterIdle ==
    /\ a_agents = {}
    /\ a_conversations = <<>>
    /\ a_call = None

JwtIdle ==
    /\ j_now = 0
    /\ j_revoked_tokens = {}
    /\ j_call = None

FlagIdle ==
    /\ c_enable_auto_redaction = TRUE
    /\ c_initial = TRUE
    /\ c_pc = <<>>
    /\ c_locals = <<>>

OthersIdle ==
    /\ WorkflowIdle
    /\ RouterIdle
    /\ JwtIdle
    /\ FlagIdle

RedactorInit ==
    /\ OthersIdle
    /\ ReceiptIdle
    /\ EngineIdle
    /\ LuhnIdle
    /\ DictIdle
    /\ r_text \in Texts
    /\ r_enabled \in EnabledChoices
    /\ r_all_matches = <<>>
    /\ r_result = None

\* The detectors run without the `in self.enabled_types` tests.
Detect_ignores_enabled ==
    /\ r_result = None
    /\ Len(r_all_matches) < MaxCands
    /\ \E t \in PIIType, s \in 0..Len(r_text), e \in 0..Len(r_text) :
          LET c == Cand(t, s, e, r_text)
          IN  /\ CanDetect(r_text, r_all_matches, c)
              /\ r_all_matches' = Append(r_all_matches, c)
    /\ UNCHANGED <<r_text, r_enabled, r_result, not_rvars>>


\* One hit of a detector of an enabled type, appended to all_matches.
Detect ==
    /\ r_result = None
    /\ Len(r_all_matches) < MaxCands
    /\ \E t \in r_enabled, s \in 0..Len(r_text), e \in 0..Len(r_text) :
          LET c == Cand(t, s, e, r_text)
          IN  /\ CanDetect(r_text, r_all_matches, c)
              /\ r_all_matches' = Append(r_all_matches, c)
    /\ UNCHANGED <<r_text, r_enabled, r_result, not_rvars>>

\* The rest of redact_text once the detectors are done.
RedactText ==
    /\ r_result = None
    /\ r_result' = redact_text(r_text, r_all_matches)
    /\ UNCHANGED <<r_text, r_enabled, r_all_matches, not_rvars>>

RedactorNext == Detect \/ RedactText

RedactorSpec == RedactorInit /\ [][RedactorNext]_vars

(***************************************************************************)
(* Claims about redact_text.                                               *)
(***************************************************************************)
RedactDone == r_result # None

NoTwoIntersect(ms) ==
    \A i, j \in 1..Len(ms) : i # j => ~Intersect(ms[i], ms[j])

SomeDetectedPairIntersects ==
    \E i, j \in 1..Len(r_all_matches) :
        i # j /\ Intersect(r_all_matches[i], r_all_matches[j])

HasMarker(text) == \E i \in 1..Len(text) : text[i] = Marker

\* C3 as stated: after redact_text, for every input text, no two entries of
\* matches intersect and the number of "[REDACTED_" occurrences in
\* redacted_text equals len(matches).
C3_Original ==
    RedactDone =>
        /\ NoTwoIntersect(r_result.matches)
        /\ CountMarkers(r_result.redacted_text) = Len(r_result.matches)

\* C3 amended: after redact_text no two entries of matches intersect, and
\* when the input text does not itself contain the literal "[REDACTED_"
\* the number of its occurrences in redacted_text equals len(matches).
C3_NonOverlapAndCount ==
    RedactDone =>
        /\ NoTwoIntersect(r_result.matches)
        /\ ~HasMarker(r_text) =>
               CountMarkers(r_result.redacted_text) = Len(r_result.matches)

\* redact_text has run on a marker-free text for which the detectors
\* reported three hits, two of them intersecting, and a match survived.
C3_Witness ==
    /\ RedactDone
    /\ ~HasMarker(r_text)
    /\ Len(r_all_matches) = 3
    /\ SomeDetectedPairIntersects
    /\ Len(r_result.matches) >= 1

\* C4: when exactly two candidates of different types are detected and they
\* intersect, the result contains exactly the higher-priority candidate,
\* whichever of the two starts first.
C4_KeepsHigherPriority ==
    (/\ RedactDone
     /\ Len(r_all_matches) = 2
     /\ r_all_matches[1].pii_type # r_all_matches[2].pii_type
     /\ Intersect(r_all_matches[1], r_all_matches[2]))
    => LET a == r_all_matches[1]
           b == r_all_matches[2]
           hi == IF priority_map(a.pii_type) > priority_map(b.pii_type) THEN a ELSE b
       IN  r_result.matches = <<PIIMatch(hi)>>

\* The detectors reported the credit-card candidate at index c and, apart
\* from it, only phone candidates that lie inside its range.
CardWithPhonesInside(c) ==
    /\ r_all_matches[c].pii_type = "credit_card"
    /\ Len(r_all_matches) >= 2
    /\ \A i \in 1..Len(r_all_matches) :
          i # c =>
              /\ r_all_matches[i].pii_type = "phone"
              /\ r_all_matches[c].start <= r_all_matches[i].start
              /\ r_all_matches[i].end <= r_all_matches[c].end

InText(sym, s) == \E i \in 1..Len(s) : s[i] = sym

\* C14: when a credit-card candidate and phone candidates inside its range
\* are detected, redact_text returns exactly one match, the credit card,
\* and redacted_text holds [REDACTED_CREDIT_CARD] and no [REDACTED_PHONE].
C14_CardOverPhone ==
    RedactDone =>
        \A c \in 1..Len(r_all_matches) :
            CardWithPhonesInside(c) =>
                /\ r_result.matches = <<PIIMatch(r_all_matches[c])>>
                /\ InText("[REDACTED_CREDIT_CARD]", r_result.redacted_text)
                /\ ~InText("[REDACTED_PHONE]", r_result.redacted_text)

\* redact_text has run where a phone candidate starts after the start of
\* the credit-card candidate that contains it.
C14_Witness ==
    /\ RedactDone
    /\ \E c \in 1..Len(r_all_matches) :
          /\ CardWithPhonesInside(c)
          /\ \E i \in 1..Len(r_all_matches) :
                r_all_matches[i].start > r_all_matches[c].start
    /\ Len(r_result.matches) = 1


\* text read from position pos (counted from 0) on, with the span of every
\* match replaced by the match's token and all else kept.
RECURSIVE SpansReplaced(_, _, _)
SpansReplaced(text, matches, pos) ==
    IF pos >= Len(text) THEN <<>>
    ELSE IF \E i \in 1..Len(matches) : matches[i].start = pos
    THEN LET i == CHOOSE k \in 1..Len(matches) : matches[k].start = pos
         IN  <<matches[i].redacted>> \o SpansReplaced(text, matches, matches[i].end)
    ELSE <<text[pos + 1]>> \o SpansReplaced(text, matches, pos + 1)

\* C16: the matches of redact_text stand in ascending start order, each
\* with start < end, original equal to original_text[start:end] and the
\* token of its type; redacted_text is original_text with each match's
\* span replaced by its token and every other character kept in place.
C16_ReplacementCorrect ==
    RedactDone =>
        LET ms == r_result.matches
        IN  /\ \A i, j \in 1..Len(ms) : i < j => ms[i].start < ms[j].start
            /\ \A i \in 1..Len(ms) :
                  /\ ms[i].start < ms[i].end
                  /\ ms[i].end <= Len(r_text)
                  /\ ms[i].original = SubSeq(r_text, ms[i].start + 1, ms[i].end)
                  /\ ms[i].redacted = Token(ms[i].pii_type)
            /\ r_result.original_text = r_text
            /\ r_result.redacted_text = SpansReplaced(r_text, ms, 0)

\* Two matches survived and the first spans more than one character, so
\* that replacing it changes the offsets behind it.
C16_Witness ==
    /\ RedactDone
    /\ Len(r_result.matches) = 2
    /\ r_result.matches[1].end - r_result.matches[1].start >= 2
    /\ r_result.matches[2].start >= r_result.matches[1].end


\* C18: if no pattern of an enabled type matches the text, be it that the
\* only types that match are disabled, redact_text returns the text as it
\* is and no matches.
C18_IdentityWithoutPII ==
    (RedactDone /\ \A i \in 1..Len(r_all_matches) :
                      r_all_matches[i].pii_type \notin r_enabled) =>
        /\ r_result.redacted_text = r_text
        /\ r_result.matches = <<>>

\* redact_text has run with some types disabled on a text of characters
\* that patterns can match.
C18_Witness ==
    /\ RedactDone
    /\ r_enabled # PIIType
    /\ Len(r_text) >= 2
    /\ ~HasMarker(r_text)
    /\ r_result.redacted_text = r_text


(***************************************************************************)
(* Receipt generator.                                                      *)
(*                                                                         *)
(* HMAC-SHA256 and SHA-256 are collision-free: a digest is the pair of its *)
(* inputs.  json.dumps(..., sort_keys=True) of a map of strings, booleans, *)
(* null and lists of strings is injective, so the canonical text of a map  *)
(* is the map itself.                                                      *)
(***************************************************************************)
Some(x) == [kind |-> "Some", val |-> x]

PolicyDecision == {"ALLOW", "DENY", "REDACT"}

\* PolicyDecision.value
DecisionValue(d) ==
    CASE d = "ALLOW" -> "allow"
      [] d = "DENY" -> "deny"
      [] d = "REDACT" -> "redact"

\* datetime.isoformat(): one text per instant.
IsoFormat(ts) == [isoformat |-> ts.instant]

\* str(datetime): the same instant written with a space for the "T".
StrOfDatetime(ts) == [str |-> ts.instant]

EmptyDict == [dict |-> "{}"]

\* Python truth of an Optional[dict]: None and {} are false.
Truthy(payload) == payload # None /\ payload # EmptyDict

hash_payload(payload) == [sha256 |-> payload]

\* The block of HMAC-SHA256 (64 bytes), scaled to the model's keys: no key
\* of the model is longer.
BlockSize == 2

\* hmac.new(key, ...): a key shorter than the block is padded with zero
\* bytes to the block's length.  The model's keys fit into the block.
HmacKey(key) == key \o [i \in 1..(BlockSize - Len(key)) |-> "NUL"]

\* hmac.new(key, canonical, sha256).hexdigest() over json.dumps(receipt_data).
compute_signature_unsigned_violations(signing_key, receipt_data) ==
    [hmac_key |-> signing_key,
     canonical |-> [receipt_data EXCEPT !.violations = <<>>]]

\* An HMAC that does not depend on the key.
compute_signature_unkeyed(signing_key, receipt_data) ==
    [hmac_key |-> <<>>, canonical |-> receipt_data]

compute_signature(signing_key, receipt_data) ==
    [hmac_key |-> HmacKey(signing_key), canonical |-> receipt_data]

\* The loop of create_receipt that collects the distinct PII types in order.
RECURSIVE PiiTypesFound(_, _)
PiiTypesFound(found, pii_matches) ==
    IF pii_matches = <<>> THEN found
    ELSE LET t == Head(pii_matches).pii_type
         IN  PiiTypesFound(
                 IF \E i \in 1..Len(found) : found[i] = t
                 THEN found ELSE Append(found, t),
                 Tail(pii_matches))

\* policy_names or []
OrEmptyList(policy_names) ==
    IF policy_names = None THEN <<>> ELSE policy_names.val

create_receipt(signing_key, receipt_id, result, request, policy_names) ==
    LET timestamp == result.timestamp
        payload_hash == hash_payload(result.original_payload)
        modified_payload_hash ==
            IF Truthy(result.modified_payload)
            THEN hash_payload(result.modified_payload) ELSE None
        pii_redacted == Len(result.pii_matches) > 0
        pii_types_found == PiiTypesFound(<<>>, result.pii_matches)
        receipt_data ==
            [receipt_id |-> receipt_id,
             timestamp |-> IsoFormat(timestamp),
             agent_id |-> request.agent_id,
             action |-> request.action,
             decision |-> DecisionValue(result.decision),
             policy_names |-> OrEmptyList(policy_names),
             violations |-> result.violations,
             payload_hash |-> payload_hash,
             modified_payload_hash |-> modified_payload_hash,
             pii_redacted |-> pii_redacted,
             pii_types_found |-> pii_types_found]
    IN  [receipt_id |-> receipt_id,
         timestamp |-> timestamp,
         agent_id |-> request.agent_id,
         action |-> request.action,
         decision |-> result.decision,
         policy_names |-> OrEmptyList(policy_names),
         violations |-> result.violations,
         payload_hash |-> payload_hash,
         modified_payload_hash |-> modified_payload_hash,
         pii_redacted |-> pii_redacted,
         pii_types_found |-> pii_types_found,
         signature |-> compute_signature(signing_key, receipt_data)]

\* verify's field map with the timestamp written by str() instead of
\* isoformat().
verify_receipt_data_str_timestamp(receipt) ==
    [receipt_id |-> receipt.receipt_id,
     timestamp |-> StrOfDatetime(receipt.timestamp),
     agent_id |-> receipt.agent_id,
     action |-> receipt.action,
     decision |-> DecisionValue(receipt.decision),
     policy_names |-> receipt.policy_names,
     violations |-> receipt.violations,
     payload_hash |-> receipt.payload_hash,
     modified_payload_hash |-> receipt.modified_payload_hash,
     pii_redacted |-> receipt.pii_redacted,
     pii_types_found |-> receipt.pii_types_found]

\* The field map verify rebuilds from the receipt.
verify_receipt_data(receipt) ==
    [receipt_id |-> receipt.receipt_id,
     timestamp |-> IsoFormat(receipt.timestamp),
     agent_id |-> receipt.agent_id,
     action |-> receipt.action,
     decision |-> DecisionValue(receipt.decision),
     policy_names |-> receipt.policy_names,
     violations |-> receipt.violations,
     payload_hash |-> receipt.payload_hash,
     modified_payload_hash |-> receipt.modified_payload_hash,
     pii_redacted |-> receipt.pii_redacted,
     pii_types_found |-> receipt.pii_types_found]

verify(signing_key, receipt) ==
    LET expected_signature ==
            compute_signature(signing_key, verify_receipt_data(receipt))
    IN  receipt.signature = expected_signature

\* Inputs of create_receipt.
\* Keys as sequences of characters; "NUL" is the character U+0000.
SigningKeys == {<<"k">>, <<"k", "NUL">>, <<"j">>}
ReceiptIds == {"uuid-1", "uuid-2"}
Timestamps == {[instant |-> 1], [instant |-> 2]}
AgentIds == {"agent-005", "hacker-agent"}
ActionNames == {"read", "write"}
ViolationLists == {<<>>, <<"Policy 'p1' denied action: email exists">>}
OriginalPayloads == {[dict |-> "{data: test}"], [dict |-> "{data: other}"]}
ModifiedPayloads == {None, EmptyDict, [dict |-> "{data: [REDACTED]}"]}
PiiMatchLists ==
    {<<>>,
     <<[pii_type |-> "email"], [pii_type |-> "email"]>>,
     <<[pii_type |-> "email"], [pii_type |-> "ssn"]>>}
PolicyNameArgs == {None, Some(<<>>), Some(<<"p1">>)}

EvaluationResults ==
    [decision : PolicyDecision,
     original_payload : OriginalPayloads,
     modified_payload : ModifiedPayloads,
     violations : ViolationLists,
     pii_matches : PiiMatchLists,
     timestamp : Timestamps]

EvaluationRequests == [agent_id : AgentIds, action : ActionNames]

ReceiptFields ==
    {"receipt_id", "timestamp", "agent_id", "action", "decision",
     "policy_names", "violations", "payload_hash", "modified_payload_hash",
     "pii_redacted", "pii_types_found"}

\* The values a holder of the receipt can write into a field.
FieldValues(f) ==
    CASE f = "receipt_id" -> ReceiptIds
      [] f = "timestamp" -> Timestamps
      [] f = "agent_id" -> AgentIds
      [] f = "action" -> ActionNames
      [] f = "decision" -> PolicyDecision
      [] f = "policy_names" -> {<<>>, <<"p1">>}
      [] f = "violations" -> ViolationLists
      [] f = "payload_hash" -> {hash_payload(p) : p \in OriginalPayloads}
      [] f = "modified_payload_hash" ->
            {None} \cup {hash_payload(p) : p \in ModifiedPayloads \ {None}}
      [] f = "pii_redacted" -> BOOLEAN
      [] f = "pii_types_found" -> {<<>>, <<"email">>, <<"email", "ssn">>}

ReceiptInit ==
    /\ OthersIdle
    /\ RedactorIdle
    /\ EngineIdle
    /\ LuhnIdle
    /\ DictIdle
    /\ rc_signing_key \in SigningKeys
    /\ rc_genuine = None
    /\ rc_receipt = None
    /\ rc_tampered = None
    /\ rc_verified = None
    /\ rc_other_verified = None

CreateReceipt ==
    /\ rc_genuine = None
    /\ \E receipt_id \in ReceiptIds, result \in EvaluationResults,
          request \in EvaluationRequests, policy_names \in PolicyNameArgs :
          LET receipt == create_receipt(rc_signing_key, receipt_id, result,
                                        request, policy_names)
          IN  /\ rc_genuine' = receipt
              /\ rc_receipt' = receipt
    /\ UNCHANGED <<rc_signing_key, rc_tampered, rc_verified, rc_other_verified,
                 not_rcvars>>

\* Someone holding the receipt changes one field and keeps the signature.
TamperField ==
    /\ rc_genuine # None
    /\ rc_tampered = None
    /\ rc_verified = None
    /\ rc_other_verified = None
    /\ \E f \in ReceiptFields :
          \E v \in FieldValues(f) \ {rc_genuine[f]} :
              /\ rc_receipt' = [rc_genuine EXCEPT ![f] = v]
              /\ rc_tampered' = Some(f)
    /\ UNCHANGED <<rc_signing_key, rc_genuine, rc_verified, rc_other_verified,
                 not_rcvars>>

\* verify(receipt) on the generator that created the receipt.
Verify ==
    /\ rc_receipt # None
    /\ rc_verified = None
    /\ rc_verified' = Some(verify(rc_signing_key, rc_receipt))
    /\ UNCHANGED <<rc_signing_key, rc_genuine, rc_receipt, rc_tampered,
                   rc_other_verified, not_rcvars>>

\* verify(receipt) on a generator constructed with another signing key.
VerifyOtherKey ==
    /\ rc_receipt # None
    /\ rc_other_verified = None
    /\ \E k2 \in SigningKeys \ {rc_signing_key} :
          rc_other_verified' = [key |-> k2, val |-> verify(k2, rc_receipt)]
    /\ UNCHANGED <<rc_signing_key, rc_genuine, rc_receipt, rc_tampered,
                   rc_verified, not_rcvars>>

ReceiptNext == CreateReceipt \/ TamperField \/ Verify \/ VerifyOtherKey

ReceiptSpec == ReceiptInit /\ [][ReceiptNext]_vars

\* C5: a receipt with one field other than signature changed and the
\* genuine signature kept fails verify on the generator that created it.
C5_TamperDetected ==
    (rc_verified # None /\ rc_tampered # None) => rc_verified.val = FALSE

\* verify has run on a receipt whose violations field was changed.
C5_Witness ==
    /\ rc_verified # None
    /\ rc_tampered = Some("violations")
    /\ rc_receipt.violations # rc_genuine.violations
    /\ rc_receipt.signature = rc_genuine.signature

\* C6: verify returns True for a receipt as create_receipt returned it, on
\* the generator that created it.
C6_RoundTrip ==
    (rc_verified # None /\ rc_tampered = None) => rc_verified.val = TRUE

\* verify has run on an untouched receipt created with policy_names=None
\* from a REDACT result with PII matches.
C6_Witness ==
    /\ rc_verified # None
    /\ rc_tampered = None
    /\ rc_receipt = rc_genuine
    /\ rc_receipt.decision = "REDACT"
    /\ rc_receipt.pii_redacted
    /\ rc_receipt.modified_payload_hash # None

\* C19 as stated: verify of a generator with a signing key different from
\* the one that signed an unchanged receipt returns False.
C19_Original ==
    (rc_other_verified # None /\ rc_tampered = None) =>
        rc_other_verified.val = FALSE

\* C19 amended: verify of a generator whose signing key, padded with zero
\* bytes to the HMAC block, differs from the padded key that signed an
\* unchanged receipt returns False.
C19_OtherKeyFails ==
    (/\ rc_other_verified # None
     /\ rc_tampered = None
     /\ HmacKey(rc_other_verified.key) # HmacKey(rc_signing_key)) =>
        rc_other_verified.val = FALSE

\* An unchanged receipt verified on its own generator and was then given
\* to a generator with a key of other characters.
C19_Witness ==
    /\ rc_other_verified # None
    /\ rc_tampered = None
    /\ rc_receipt = rc_genuine
    /\ rc_verified = Some(TRUE)
    /\ rc_signing_key = <<"k">>
    /\ rc_other_verified.key = <<"j">>
    /\ rc_other_verified.val = FALSE


(***************************************************************************)
(* Governance engine.                                                      *)
(*                                                                         *)
(* A payload is a map from keys to values; a value is a string (a sequence *)
(* of symbols) or a nested map of strings.  Inside evaluate the maps are   *)
(* Python objects: a top-level map holds a string or a reference to a      *)
(* nested map, and heap gives each referenced map its present content, so  *)
(* that a shallow copy shares the nested maps.                             *)
(***************************************************************************)
StrV(s) == [kind |-> "str", val |-> s]
DictV(d) == [kind |-> "dict", val |-> d]
RefV(id) == [kind |-> "ref", val |-> id]

\* The order in which a payload's keys were inserted (dict iteration order).
KeyOrder == <<"email", "name", "user">>

\* The strings of the model's payloads.
Mail == <<"a", "@", "a">>
Clean == <<"a">>
RedactedLiteral == <<"[REDACTED]">>

\* The caller's payload as Python objects: the top-level map and the heap.
TopOf(payload) ==
    [k \in DOMAIN payload |->
        IF payload[k].kind = "dict" THEN RefV(k) ELSE payload[k]]

HeapOf(payload) ==
    [k \in {x \in DOMAIN payload : payload[x].kind = "dict"} |-> payload[k].val]

\* The value a top-level map denotes under the present heap.
Resolve(top, heap) ==
    [k \in DOMAIN top |->
        IF top[k].kind = "ref" THEN DictV(heap[top[k].val]) ELSE top[k]]

\* path.split(".")
Split(path) ==
    CASE path = "email" -> <<"email">>
      [] path = "user" -> <<"user">>
      [] path = "user.email" -> <<"user", "email">>
      [] path = "user.name" -> <<"user", "name">>

\* dict.get(key) on the map at a location: the top-level map or a heap map.
DictGet(d, key) == IF key \in DOMAIN d THEN d[key] ELSE None

\* _get_nested_value(data, path): data is the top-level map top.
RECURSIVE GetFrom(_, _, _)
GetFrom(current, keys, heap) ==
    IF keys = <<>> THEN current
    ELSE IF current.kind = "ref"
         THEN GetFrom(DictGet(heap[current.val], Head(keys)), Tail(keys), heap)
         ELSE None

get_nested_value(top, heap, path) ==
    LET keys == Split(path)
    IN  GetFrom(DictGet(top, Head(keys)), Tail(keys), heap)

\* x in s for two strings: s has x as a contiguous part.
StrContains(x, s) ==
    \E i \in 0..(Len(s) - Len(x)) :
        \A j \in 1..Len(x) : s[i + j] = x[j]

\* re.search(pattern, s) for a pattern without metacharacters.
ReSearch(pattern, s) == StrContains(pattern, s)

\* _check_rule(rule, payload): "match" for True, "nomatch" for False, and
\* "TypeError" where `rule.value in value` meets a string and a None.
check_rule(rule, top, heap) ==
    LET value == get_nested_value(top, heap, rule.field)
        Bool(b) == IF b THEN "match" ELSE "nomatch"
    IN  IF rule.operator = "exists" THEN Bool(value # None)
        ELSE IF value = None THEN "nomatch"
        ELSE IF rule.operator = "equals" THEN Bool(value = rule.value)
        ELSE IF rule.operator = "contains"
             THEN IF value.kind = "str"
                  THEN IF rule.value = None THEN "TypeError"
                       ELSE Bool(StrContains(rule.value.val, value.val))
                  ELSE "nomatch"
        ELSE IF rule.operator = "regex"
             THEN IF value.kind = "str" /\ rule.value # None
                  THEN Bool(ReSearch(rule.value.val, value.val))
                  ELSE "nomatch"
        ELSE "nomatch"

\* A redaction that overwrites the first key of the path, whatever the
\* path's length.
redact_nested_value_first_key(modified, heap, path) ==
    LET keys == Split(path)
    IN  IF keys[1] \in DOMAIN modified
        THEN [modified |-> [modified EXCEPT ![keys[1]] = StrV(RedactedLiteral)],
              heap |-> heap]
        ELSE [modified |-> modified, heap |-> heap]


\* _redact_nested_value(data, path) on the top-level map `modified`; returns
\* the map and the heap as the assignment leaves them.
redact_nested_value(modified, heap, path) ==
    LET keys == Split(path)
        same == [modified |-> modified, heap |-> heap]
    IN  IF Len(keys) = 1
        THEN IF keys[1] \in DOMAIN modified
             THEN [modified |-> [modified EXCEPT ![keys[1]] = StrV(RedactedLiteral)],
                   heap |-> heap]
             ELSE same
        ELSE \* Len(keys) = 2: navigate to the parent, then assign
             IF keys[1] \notin DOMAIN modified THEN same
             ELSE IF modified[keys[1]].kind # "ref" THEN same
             ELSE LET id == modified[keys[1]].val
                  IN  IF keys[2] \in DOMAIN heap[id]
                      THEN [modified |-> modified,
                            heap |-> [heap EXCEPT ![id] =
                                [heap[id] EXCEPT ![keys[2]] = StrV(RedactedLiteral)]]]
                      ELSE same

\* _apply_action(rule, payload): payload.copy() is a new top-level map with
\* the same references.
apply_action(rule, payload, heap) ==
    LET modified == payload
    IN  IF rule.action = "deny"
        THEN [decision |-> "DENY", modified |-> modified, heap |-> heap]
        ELSE IF rule.action = "redact"
        THEN LET r == redact_nested_value(modified, heap, rule.field)
             IN  [decision |-> "REDACT", modified |-> r.modified, heap |-> r.heap]
        ELSE [decision |-> "ALLOW", modified |-> modified, heap |-> heap]

\* re.finditer(EMAIL_PATTERN, text) over the symbols of the model's payloads:
\* a match is a word, "@", a word; the scan resumes behind it.  pos counts
\* from 0.
RECURSIVE detect_email(_, _)
detect_email(text, pos) ==
    IF pos + 3 > Len(text) THEN <<>>
    ELSE IF text[pos + 1] = "a" /\ text[pos + 2] = "@" /\ text[pos + 3] = "a"
         THEN <<Cand("email", pos, pos + 3, text)>> \o detect_email(text, pos + 3)
         ELSE detect_email(text, pos + 1)

\* The detection part of redact_text; the other patterns match no text made
\* of these symbols.
detect_all(text, enabled_types) ==
    IF "email" \in enabled_types THEN detect_email(text, 0) ELSE <<>>

EmptyMap == [k \in {} |-> None]

MapPut(f, k, v) == [x \in DOMAIN f \cup {k} |-> IF x = k THEN v ELSE f[x]]

\* data.items(): the keys of a map in insertion order.
RECURSIVE KeysIn(_, _)
KeysIn(d, order) ==
    IF order = <<>> THEN <<>>
    ELSE (IF Head(order) \in DOMAIN d THEN <<Head(order)>> ELSE <<>>)
         \o KeysIn(d, Tail(order))

ListV(items) == [kind |-> "list", val |-> items]
IntV(n) == [kind |-> "int", val |-> n]

\* redacted[key].append(result.redacted_text); all_matches.extend(...)
AppendText(acc, result) ==
    [redacted |-> Append(acc.redacted, StrV(result.redacted_text)),
     all_matches |-> acc.all_matches \o result.matches]

\* redacted[key].append(redacted_item); all_matches.extend(matches)
AppendDict(acc, inner) ==
    [redacted |-> Append(acc.redacted, DictV(inner.redacted)),
     all_matches |-> acc.all_matches \o inner.all_matches]

\* The list is stored, the matches found in it are not kept.
PutList_drops_matches(acc, key, inner) ==
    [redacted |-> MapPut(acc.redacted, key, ListV(inner.redacted)),
     all_matches |-> acc.all_matches]


\* redacted[key] = the list the inner loop built; all_matches is the one
\* list both loops extend.
PutList(acc, key, inner) ==
    [redacted |-> MapPut(acc.redacted, key, ListV(inner.redacted)),
     all_matches |-> inner.all_matches]

\* redact_dict(data) of a redactor with the given enabled types; data is a
\* map of strings, nested maps, lists and other values.
RECURSIVE redact_dict(_, _)
RECURSIVE RedactItems(_, _, _, _)

\* `for item in value:` for a value that is a list; acc holds the list
\* built so far and all_matches.
RECURSIVE RedactListItems(_, _, _)
RedactListItems(items, enabled_types, acc) ==
    IF items = <<>> THEN acc
    ELSE IF Head(items).kind = "str"
    THEN RedactListItems(Tail(items), enabled_types,
             AppendText(acc, redact_text(Head(items).val,
                                 detect_all(Head(items).val, enabled_types))))
    ELSE IF Head(items).kind = "dict"
    THEN RedactListItems(Tail(items), enabled_types,
             AppendDict(acc, redact_dict(Head(items).val, enabled_types)))
    ELSE RedactListItems(Tail(items), enabled_types,
             [acc EXCEPT !.redacted = Append(@, Head(items))])

RedactItems(data, keys, enabled_types, acc) ==
    IF keys = <<>> THEN acc
    ELSE LET key == Head(keys)
             value == data[key]
         IN  IF value.kind = "str"
             THEN LET result == redact_text(value.val,
                                            detect_all(value.val, enabled_types))
                  IN  RedactItems(data, Tail(keys), enabled_types,
                          [redacted |-> MapPut(acc.redacted, key,
                                               StrV(result.redacted_text)),
                           all_matches |-> acc.all_matches \o result.matches])
             ELSE IF value.kind = "dict"
             THEN LET inner == redact_dict(value.val, enabled_types)
                  IN  RedactItems(data, Tail(keys), enabled_types,
                          [redacted |-> MapPut(acc.redacted, key,
                                               DictV(inner.redacted)),
                           all_matches |-> acc.all_matches \o inner.all_matches])
             ELSE IF value.kind = "list"
             THEN RedactItems(data, Tail(keys), enabled_types,
                      PutList(acc, key,
                          RedactListItems(value.val, enabled_types,
                              [redacted |-> <<>>,
                               all_matches |-> acc.all_matches])))
             ELSE RedactItems(data, Tail(keys), enabled_types,
                          [redacted |-> MapPut(acc.redacted, key, value),
                           all_matches |-> acc.all_matches])

redact_dict(data, enabled_types) ==
    RedactItems(data, KeysIn(data, KeyOrder), enabled_types,
                [redacted |-> EmptyMap, all_matches |-> <<>>])

\* The strings evaluate writes into reason and violations.
NoViolationsReason == [kind |-> "No policy violations", policy |-> "", count |-> 0]
DeniedReason(policy) == [kind |-> "Denied by policy", policy |-> policy.name, count |-> 0]
RedactedReason(policy) == [kind |-> "Redacted by policy", policy |-> policy.name, count |-> 0]
PiiReason(n) == [kind |-> "PII auto-redaction enabled", policy |-> "", count |-> n]

DeniedViolation(policy, rule) ==
    [kind |-> "denied action", policy |-> policy.name,
     field |-> rule.field, detail |-> rule.operator]
RedactedViolation(policy, rule) ==
    [kind |-> "redacted field", policy |-> policy.name,
     field |-> rule.field, detail |-> ""]
PiiViolation(m) ==
    [kind |-> "Auto-redacted PII", policy |-> "", field |-> "", detail |-> m.pii_type]

\* sorted(...) left out: the policies in the order they were added.
sorted_policies_insertion_order(policies) == policies


\* sorted(self._policies.values(), key=lambda p: p.priority, reverse=True)
sorted_policies(policies) ==
    SortedBy(policies, [i \in 1..Len(policies) |-> 0 - policies[i].priority])

\* `if not policy.enabled: continue`, with the test left out.
Skipped_never(policy) == FALSE

\* `if not policy.enabled: continue`
Skipped(policy) == ~policy.enabled

\* `elif decision == REDACT`, without the test of final_decision.
RedactApplies_over_deny(decision, final_decision) == decision = "REDACT"

\* `elif decision == PolicyDecision.REDACT and final_decision == ALLOW`
RedactApplies(decision, final_decision) ==
    decision = "REDACT" /\ final_decision = "ALLOW"

\* `if self.pii_redactor`, without the test of enable_auto_redaction.
AutoRedactionOn_ignores_flag(pii_redactor, enable_auto_redaction) ==
    pii_redactor # None

\* `if self.pii_redactor and self.enable_auto_redaction`
AutoRedactionOn(pii_redactor, enable_auto_redaction) ==
    pii_redactor # None /\ enable_auto_redaction

\* The working copy returned whatever the decision.
ModifiedPayloadOf_always(final_decision, modified_payload) ==
    DictV(modified_payload)

\* `modified_payload if final_decision == PolicyDecision.REDACT else None`
ModifiedPayloadOf(final_decision, modified_payload) ==
    IF final_decision = "REDACT" THEN DictV(modified_payload) ELSE None

\* The (policy, rule) pairs the two loops of evaluate visit, in order.
RECURSIVE RuleVisits(_)
RuleVisits(sorted) ==
    IF sorted = <<>> THEN <<>>
    ELSE LET policy == Head(sorted)
         IN  (IF Skipped(policy) THEN <<>>
              ELSE [i \in 1..Len(policy.rules) |->
                       [policy |-> policy, rule |-> policy.rules[i]]])
             \o RuleVisits(Tail(sorted))

\* The body of the inner loop of evaluate for one rule.  st holds the locals
\* of evaluate, the heap, and the rules that matched so far.
RuleStep(st, policy, rule, request_top) ==
    LET checked == check_rule(rule, request_top, st.heap)
    IN  IF checked = "TypeError" THEN [st EXCEPT !.raised = TRUE]
        ELSE IF checked = "nomatch" THEN st
        ELSE LET a == apply_action(rule, st.modified_payload, st.heap)
                 st1 == [st EXCEPT !.modified_payload = a.modified,
                                   !.heap = a.heap,
                                   !.matched = Append(@, [policy |-> policy.name,
                                                          rule |-> rule])]
             IN  IF a.decision = "DENY"
                 THEN [st1 EXCEPT !.final_decision = "DENY",
                                  !.reason = DeniedReason(policy),
                                  !.violations = Append(@, DeniedViolation(policy, rule))]
                 ELSE IF RedactApplies(a.decision, st.final_decision)
                 THEN [st1 EXCEPT !.final_decision = "REDACT",
                                  !.reason = RedactedReason(policy),
                                  !.violations = Append(@, RedactedViolation(policy, rule))]
                 ELSE st1

RECURSIVE RuleLoop(_, _, _)
RuleLoop(st, visits, request_top) ==
    IF visits = <<>> \/ st.raised THEN st
    ELSE RuleLoop(RuleStep(st, Head(visits).policy, Head(visits).rule, request_top),
                  Tail(visits), request_top)

\* evaluate up to the end of the policy loops (engine.py lines 106-142).
RuleStage(policies, payload) ==
    RuleLoop([modified_payload |-> TopOf(payload),
              heap |-> HeapOf(payload),
              final_decision |-> "ALLOW",
              reason |-> NoViolationsReason,
              violations |-> <<>>,
              matched |-> <<>>,
              raised |-> FALSE],
             RuleVisits(sorted_policies(policies)), TopOf(payload))

\* An `if pii_matches:` body that rewrites the reason whatever the decision.
PiiFound_overwrites_reason(st, base, r, pii_matches) ==
    IF pii_matches # <<>>
    THEN [final_decision |->
              IF st.final_decision = "ALLOW" THEN "REDACT"
              ELSE st.final_decision,
          reason |-> PiiReason(Len(pii_matches)),
          violations |->
              st.violations \o
              [i \in 1..Len(pii_matches) |-> PiiViolation(pii_matches[i])],
          modified_payload |-> r.redacted,
          pii_matches |-> pii_matches]
    ELSE [base EXCEPT !.pii_matches = pii_matches]


\* The body of `if pii_matches:` (lines 148-152) and what is left when the
\* redactor found nothing; r is what redact_dict returned.
PiiFound(st, base, r, pii_matches) ==
    IF pii_matches # <<>>
    THEN [final_decision |->
              IF st.final_decision = "ALLOW" THEN "REDACT"
              ELSE st.final_decision,
          reason |->
              IF st.final_decision = "ALLOW"
              THEN PiiReason(Len(pii_matches)) ELSE st.reason,
          violations |->
              st.violations \o
              [i \in 1..Len(pii_matches) |-> PiiViolation(pii_matches[i])],
          modified_payload |-> r.redacted,
          pii_matches |-> pii_matches]
    ELSE [base EXCEPT !.pii_matches = pii_matches]

\* modified_payload, pii_matches = self.pii_redactor.redact_dict(...)
PiiRedacted(st, base, r) == PiiFound(st, base, r, r.all_matches)

\* The locals of evaluate where the auto-redaction block is not entered.
PiiBase(st, modified) ==
    [final_decision |-> st.final_decision, reason |-> st.reason,
     violations |-> st.violations, modified_payload |-> modified,
     pii_matches |-> <<>>]

\* The auto-redaction block of evaluate (lines 144-152) on the locals left
\* by the policy loops; modified is the working copy as a value.
PiiStage(st, modified, pii_redactor, enable_auto_redaction) ==
    IF AutoRedactionOn(pii_redactor, enable_auto_redaction)
    THEN PiiRedacted(st, PiiBase(st, modified),
                     redact_dict(modified, pii_redactor.enabled_types))
    ELSE PiiBase(st, modified)

\* The EvaluationResult evaluate builds (lines 163-171).
EvaluationResult(fin, original_payload) ==
    [decision |-> fin.final_decision,
     reason |-> fin.reason,
     original_payload |-> original_payload,
     modified_payload |-> ModifiedPayloadOf(fin.final_decision, fin.modified_payload),
     violations |-> fin.violations,
     pii_matches |-> fin.pii_matches]

\* evaluate(request): how the call ends, the result, the caller's payload
\* as the call leaves it, and the rules whose check returned True.
evaluate(policies, pii_redactor, enable_auto_redaction, payload) ==
    LET st == RuleStage(policies, payload)
        payload_after == Resolve(TopOf(payload), st.heap)
    IN  IF st.raised
        THEN [outcome |-> "raised", result |-> None,
              payload_after |-> payload_after, matched |-> st.matched]
        ELSE LET fin == PiiStage(st, Resolve(st.modified_payload, st.heap),
                                 pii_redactor, enable_auto_redaction)
             IN  [outcome |-> "returned",
                  result |-> EvaluationResult(fin, payload_after),
                  payload_after |-> payload_after,
                  matched |-> st.matched]

\* evaluate_with_redaction(request): the call's end and the flag it leaves.
evaluate_with_redaction_no_finally(policies, pii_redactor, enable_auto_redaction, payload) ==
    LET original_auto_redaction == enable_auto_redaction
        call == evaluate(policies, pii_redactor, TRUE, payload)
    IN  [call |-> call,
         enable_auto_redaction |->
             IF call.outcome = "raised" THEN TRUE ELSE original_auto_redaction]

evaluate_with_redaction(policies, pii_redactor, enable_auto_redaction, payload) ==
    LET original_auto_redaction == enable_auto_redaction
        call == evaluate(policies, pii_redactor, TRUE, payload)
    IN  [call |-> call, enable_auto_redaction |-> original_auto_redaction]

\* A registry kept as a list: every add appends.
add_policy_append(policies, policy) == Append(policies, policy)


\* self._policies[policy.name] = policy: a known name keeps its place.
add_policy(policies, policy) ==
    IF \E i \in 1..Len(policies) : policies[i].name = policy.name
    THEN [i \in 1..Len(policies) |->
             IF policies[i].name = policy.name THEN policy ELSE policies[i]]
    ELSE Append(policies, policy)

RECURSIVE DelName(_, _)
DelName(policies, name) ==
    IF policies = <<>> THEN <<>>
    ELSE (IF Head(policies).name = name THEN <<>> ELSE <<Head(policies)>>)
         \o DelName(Tail(policies), name)

\* remove_policy(name): the registry it leaves and the value it returns.
remove_policy(policies, name) ==
    IF \E i \in 1..Len(policies) : policies[i].name = name
    THEN [policies |-> DelName(policies, name), returned |-> TRUE]
    ELSE [policies |-> policies, returned |-> FALSE]

(***************************************************************************)
(* Inputs of the engine.                                                   *)
(***************************************************************************)
MaxRules == 2       \* most rules held by the registered policies together

PolicyRule(field, operator, value, action) ==
    [field |-> field, operator |-> operator, value |-> value, action |-> action]

Rules ==
    {PolicyRule("user.email", "regex", StrV(<<"@">>), "deny"),
     PolicyRule("user.email", "exists", None, "redact"),
     PolicyRule("email", "equals", StrV(Mail), "redact"),
     PolicyRule("user.name", "contains", StrV(Clean), "allow"),
     PolicyRule("email", "contains", None, "allow")}

\* Policy names are interchangeable: the constructor's list names its
\* policies in this order.
PolicyNames == <<"p1", "p2">>

Priorities == {0, 1}

\* The policies of a given name with at most n rules.
PoliciesWithin(name, n) ==
    [name : {name},
     rules : UNION {[1..m -> Rules] : m \in 0..n},
     enabled : BOOLEAN,
     priority : Priorities]

\* The lists of policies named names[1], names[2], ... in this order, or of
\* fewer, that hold at most budget rules together.
RECURSIVE PolicyListsWithin(_, _)
PolicyListsWithin(names, budget) ==
    IF names = <<>> THEN {<<>>}
    ELSE {<<>>} \cup
         UNION {{<<p>> \o rest :
                    rest \in PolicyListsWithin(Tail(names), budget - Len(p.rules))} :
                p \in PoliciesWithin(Head(names), budget)}

NestedMaps ==
    {[k \in {"email", "name"} |-> IF k = "email" THEN StrV(Mail) ELSE StrV(Clean)],
     [k \in {"name"} |-> StrV(Clean)]}

TopValues(k) ==
    IF k = "email" THEN {StrV(Mail), StrV(Clean)}
    ELSE {StrV(Clean)} \cup {DictV(d) : d \in NestedMaps}

Payloads ==
    UNION {{p \in [keys -> UNION {TopValues(k) : k \in keys}] :
               \A k \in keys : p[k] \in TopValues(k)} :
           keys \in SUBSET {"email", "user"}}

NoCall == [op |-> "none"]

\* The policies argument of the constructor.
PolicyLists == PolicyListsWithin(PolicyNames, MaxRules)

\* The constructor's loop: add_policy for each policy of the argument.
RECURSIVE AddAll(_, _)
AddAll(policies, arg) ==
    IF arg = <<>> THEN policies
    ELSE AddAll(add_policy(policies, Head(arg)), Tail(arg))

EngineInit ==
    /\ OthersIdle
    /\ RedactorIdle
    /\ ReceiptIdle
    /\ LuhnIdle
    /\ DictIdle
    /\ \E arg \in PolicyLists : e_policies = AddAll(<<>>, arg)
    /\ e_pii_redactor \in {None, [enabled_types |-> PIIType]}
    /\ e_enable_auto_redaction \in BOOLEAN
    /\ e_call = NoCall

CallRecord(op, payload, flag_before, call) ==
    [op |-> op, payload |-> payload, flag_before |-> flag_before,
     outcome |-> call.outcome, result |-> call.result,
     payload_after |-> call.payload_after, matched |-> call.matched]

\* The engine is used from one thread: a call is made once the caller has
\* taken the result of the call before it.
Evaluate ==
    /\ e_call = NoCall
    /\ \E payload \in Payloads :
          e_call' = CallRecord("evaluate", payload, e_enable_auto_redaction,
                        evaluate(e_policies, e_pii_redactor,
                                 e_enable_auto_redaction, payload))
    /\ UNCHANGED <<e_policies, e_pii_redactor, e_enable_auto_redaction, not_evars>>

EvaluateWithRedaction ==
    /\ e_call = NoCall
    /\ \E payload \in Payloads :
          LET r == evaluate_with_redaction(e_policies, e_pii_redactor,
                                           e_enable_auto_redaction, payload)
          IN  /\ e_call' = CallRecord("evaluate_with_redaction", payload,
                                      e_enable_auto_redaction, r.call)
              /\ e_enable_auto_redaction' = r.enable_auto_redaction
    /\ UNCHANGED <<e_policies, e_pii_redactor, not_evars>>

\* The caller takes the result of the call.
Return ==
    /\ e_call # NoCall
    /\ e_call' = NoCall
    /\ UNCHANGED <<e_policies, e_pii_redactor, e_enable_auto_redaction, not_evars>>

EngineNext == Evaluate \/ EvaluateWithRedaction \/ Return

EngineSpec == EngineInit /\ [][EngineNext]_vars

(***************************************************************************)
(* Claims about evaluate and evaluate_with_redaction.                      *)
(***************************************************************************)
EvalCall == e_call.op \in {"evaluate", "evaluate_with_redaction"}
Returned == EvalCall /\ e_call.outcome = "returned"

\* enable_auto_redaction as evaluate saw it during the call.
FlagInCall ==
    IF e_call.op = "evaluate_with_redaction" THEN TRUE ELSE e_call.flag_before

MatchedAction(action) ==
    \E i \in 1..Len(e_call.matched) : e_call.matched[i].rule.action = action

\* C1: if at least one rule with action deny matched during evaluate, the
\* returned decision is DENY, whatever other rules matched, in whatever
\* order, and whether or not auto-redaction found PII.
C1_DenySticky ==
    (Returned /\ MatchedAction("deny")) => e_call.result.decision = "DENY"

\* A deny rule of a higher-priority policy matched, a redact rule of
\* another policy matched after it, and auto-redaction then found PII.
C1_Witness ==
    /\ Returned
    /\ \E i, j \in 1..Len(e_call.matched) :
          /\ i < j
          /\ e_call.matched[i].rule.action = "deny"
          /\ e_call.matched[j].rule.action = "redact"
          /\ e_call.matched[i].policy # e_call.matched[j].policy
    /\ e_call.result.pii_matches # <<>>

\* C2: after evaluate the caller's payload, nested maps included, holds the
\* values it held before the call, and original_payload equals the payload
\* as submitted.
C2_PayloadNotMutated ==
    EvalCall =>
        /\ e_call.payload_after = e_call.payload
        /\ Returned => e_call.result.original_payload = e_call.payload

\* C7: with a redactor attached and auto-redaction on, redact_dict runs
\* over the payload as the rules left it; if it finds a match the decision
\* is DENY if the rules denied and REDACT otherwise, pii_matches holds the
\* matches and one "Auto-redacted PII" violation per match follows the
\* rules' violations.  Otherwise the rules' decision stands and pii_matches
\* is empty.
C7_AutoRedaction ==
    Returned =>
        LET st == RuleStage(e_policies, e_call.payload)
            after_rules == Resolve(st.modified_payload, st.heap)
            res == e_call.result
        IN  IF e_pii_redactor # None /\ FlagInCall
            THEN LET found == redact_dict(after_rules,
                                          e_pii_redactor.enabled_types).all_matches
                 IN  /\ res.pii_matches = found
                     /\ found # <<>> =>
                          /\ res.decision =
                                 (IF st.final_decision = "DENY" THEN "DENY" ELSE "REDACT")
                          /\ res.violations =
                                 st.violations \o
                                 [i \in 1..Len(found) |->
                                     [kind |-> "Auto-redacted PII", policy |-> "",
                                      field |-> "", detail |-> found[i].pii_type]]
                     /\ found = <<>> =>
                          /\ res.decision = st.final_decision
                          /\ res.violations = st.violations
            ELSE /\ res.pii_matches = <<>>
                 /\ res.decision = st.final_decision
                 /\ res.violations = st.violations

\* evaluate, with the flag off and a redactor attached, allowed a payload
\* that holds an e-mail address in two places.
C7_Witness ==
    /\ Returned
    /\ e_call.op = "evaluate"
    /\ e_pii_redactor # None
    /\ ~e_call.flag_before
    /\ "email" \in DOMAIN e_call.payload
    /\ e_call.payload["email"] = StrV(Mail)
    /\ "user" \in DOMAIN e_call.payload
    /\ e_call.payload["user"].kind = "dict"
    /\ e_call.result.decision = "ALLOW"

\* C8: modified_payload is not None exactly when the decision is REDACT.
C8_ModifiedIffRedact ==
    Returned =>
        (e_call.result.modified_payload # None <=> e_call.result.decision = "REDACT")

\* A DENY result after a redact rule matched and auto-redaction found PII.
C8_Witness ==
    /\ Returned
    /\ e_call.result.decision = "DENY"
    /\ MatchedAction("redact")
    /\ e_call.result.pii_matches # <<>>
    /\ e_call.result.modified_payload = None

\* C9: when evaluate or evaluate_with_redaction ends, by returning or by
\* raising, enable_auto_redaction has the value it had before the call.
C9_FlagRestored ==
    EvalCall => e_enable_auto_redaction = e_call.flag_before

\* evaluate_with_redaction raised on an engine whose flag is off.
C9_Witness ==
    /\ e_call.op = "evaluate_with_redaction"
    /\ e_call.outcome = "raised"
    /\ ~e_call.flag_before

DisabledAt(i) == ~e_policies[i].enabled

\* C10: evaluate ends as it would on the same engine without any one of
\* its disabled policies: same outcome and, if it returns, same decision,
\* reason, violations and modified_payload.
C10_DisabledInert ==
    EvalCall =>
        \A i \in 1..Len(e_policies) :
            DisabledAt(i) =>
                LET without == remove_policy(e_policies, e_policies[i].name).policies
                    other == evaluate(without, e_pii_redactor, FlagInCall,
                                      e_call.payload)
                IN  /\ other.outcome = e_call.outcome
                    /\ Returned =>
                          /\ other.result.decision = e_call.result.decision
                          /\ other.result.reason = e_call.result.reason
                          /\ other.result.violations = e_call.result.violations
                          /\ other.result.modified_payload =
                                 e_call.result.modified_payload

\* evaluate returned ALLOW although a disabled policy of higher priority
\* than an enabled one holds a deny rule that matches the payload.
C10_Witness ==
    /\ Returned
    /\ e_call.result.decision = "ALLOW"
    /\ \E i \in 1..Len(e_policies) :
          /\ DisabledAt(i)
          /\ \E j \in 1..Len(e_policies[i].rules) :
                /\ e_policies[i].rules[j].action = "deny"
                /\ check_rule(e_policies[i].rules[j], TopOf(e_call.payload),
                              HeapOf(e_call.payload)) = "match"
          /\ \E k \in 1..Len(e_policies) :
                e_policies[k].enabled /\ e_policies[k].priority < e_policies[i].priority


\* a is b with some entries left out.
RECURSIVE IsSubseq(_, _)
IsSubseq(a, b) ==
    IF a = <<>> THEN TRUE
    ELSE IF b = <<>> THEN FALSE
    ELSE IF Head(a) = Head(b) THEN IsSubseq(Tail(a), Tail(b))
    ELSE IsSubseq(a, Tail(b))

RECURSIVE SelectSeqBy(_, _)
SelectSeqBy(s, keep) ==
    IF s = <<>> THEN <<>>
    ELSE (IF keep[1] THEN <<Head(s)>> ELSE <<>>)
         \o SelectSeqBy(Tail(s), Tail(keep))

\* The rules of one policy, in list order, each with the policy's name.
RulesOf(policy) ==
    [i \in 1..Len(policy.rules) |-> [policy |-> policy.name, rule |-> policy.rules[i]]]

RECURSIVE ConcatRules(_)
ConcatRules(policies) ==
    IF policies = <<>> THEN <<>>
    ELSE RulesOf(Head(policies)) \o ConcatRules(Tail(policies))

\* The rules of the enabled policies, highest priority first; policies of
\* one priority in the order they were added.
RECURSIVE RulesByPriority(_, _)
RulesByPriority(policies, prios) ==
    IF prios = {} THEN <<>>
    ELSE LET top == CHOOSE p \in prios : \A q \in prios : q <= p
             level == SelectSeqBy(policies,
                          [i \in 1..Len(policies) |->
                              policies[i].enabled /\ policies[i].priority = top])
         IN  ConcatRules(level) \o RulesByPriority(policies, prios \ {top})

\* The violation a rule writes when it is the one that decides.
ViolationOf(visit) ==
    IF visit.rule.action = "deny"
    THEN [kind |-> "denied action", policy |-> visit.policy,
          field |-> visit.rule.field, detail |-> visit.rule.operator]
    ELSE [kind |-> "redacted field", policy |-> visit.policy,
          field |-> visit.rule.field, detail |-> ""]

RuleViolations(violations) ==
    SelectSeqBy(violations,
        [i \in 1..Len(violations) |-> violations[i].kind # "Auto-redacted PII"])

\* C11: the rules that matched were applied in descending priority of their
\* policies (rules of one policy in list order), and the violations the
\* rules wrote stand in that order, whatever the order of registration.
C11_PriorityOrder ==
    EvalCall =>
        LET order == RulesByPriority(e_policies, Priorities)
            writers == SelectSeqBy(order,
                           [i \in 1..Len(order) |-> order[i].rule.action # "allow"])
        IN  /\ IsSubseq(e_call.matched, order)
            /\ Returned =>
                  IsSubseq(RuleViolations(e_call.result.violations),
                           [i \in 1..Len(writers) |-> ViolationOf(writers[i])])

\* The policy added second has the higher priority, and the result lists
\* its violation before the one of the policy added first.
C11_Witness ==
    /\ Returned
    /\ Len(e_policies) = 2
    /\ e_policies[1].priority < e_policies[2].priority
    /\ Len(e_call.result.violations) >= 2
    /\ e_call.result.violations[1].policy = e_policies[2].name
    /\ e_call.result.violations[2].policy = e_policies[1].name


\* The fields of the redact rules that matched during the call.
RedactedFields ==
    {e_call.matched[i].rule.field :
        i \in {j \in 1..Len(e_call.matched) : e_call.matched[j].rule.action = "redact"}}

\* payload with the leaves at the given dot-paths replaced by "[REDACTED]"
\* and every other field as it is.
WithLeavesRedacted(payload, fields) ==
    [k \in DOMAIN payload |->
        IF \E f \in fields : Split(f) = <<k>> THEN StrV(RedactedLiteral)
        ELSE IF payload[k].kind = "dict"
        THEN DictV([j \in DOMAIN payload[k].val |->
                       IF \E f \in fields : Split(f) = <<k, j>>
                       THEN StrV(RedactedLiteral)
                       ELSE payload[k].val[j]])
        ELSE payload[k]]

\* C12: where redact rules matched and no deny rule did, the decision is
\* REDACT and modified_payload is the submitted payload with exactly the
\* leaves those rules address replaced by "[REDACTED]" (then passed through
\* the redactor where auto-redaction is on); every other field, siblings
\* in nested maps included, is as submitted.
C12_RedactLeaf ==
    (Returned /\ MatchedAction("redact") /\ ~MatchedAction("deny")) =>
        LET leaves == WithLeavesRedacted(e_call.payload, RedactedFields)
        IN  /\ e_call.result.decision = "REDACT"
            /\ e_call.result.modified_payload =
                  DictV(IF e_pii_redactor # None /\ FlagInCall
                        THEN redact_dict(leaves, e_pii_redactor.enabled_types).redacted
                        ELSE leaves)

\* The rule {user.email, exists, redact} alone matched on a payload
\* {user: {email, name}}: REDACT, user.email replaced, user.name kept.
C12_Witness ==
    /\ Returned
    /\ Len(e_call.matched) = 1
    /\ e_call.matched[1].rule = PolicyRule("user.email", "exists", None, "redact")
    /\ e_call.payload = [user |-> DictV([email |-> StrV(Mail), name |-> StrV(Clean)])]
    /\ e_call.result.decision = "REDACT"
    /\ e_call.result.pii_matches = <<>>
    /\ e_call.result.modified_payload =
          DictV([user |-> DictV([email |-> StrV(RedactedLiteral), name |-> StrV(Clean)])])


\* Entry i of the matched rules is a deny rule.
DenyMatchAt(i) == e_call.matched[i].rule.action = "deny"

\* C13: a DENY result has a violation that names a policy whose deny rule
\* matched, with that rule's field and operator, and its reason names a
\* policy whose deny rule matched; later redact rules and auto-redaction
\* leave that reason in place.
C13_DenyAuditable ==
    (Returned /\ e_call.result.decision = "DENY") =>
        /\ e_call.result.violations # <<>>
        /\ \E i \in 1..Len(e_call.matched) :
              /\ DenyMatchAt(i)
              /\ \E v \in 1..Len(e_call.result.violations) :
                    e_call.result.violations[v] =
                        [kind |-> "denied action",
                         policy |-> e_call.matched[i].policy,
                         field |-> e_call.matched[i].rule.field,
                         detail |-> e_call.matched[i].rule.operator]
        /\ \E i \in 1..Len(e_call.matched) :
              /\ DenyMatchAt(i)
              /\ e_call.result.reason =
                    [kind |-> "Denied by policy",
                     policy |-> e_call.matched[i].policy, count |-> 0]

\* A policy's deny rule matched, its next rule, a redact rule, matched
\* too, and auto-redaction then found PII: the result is DENY.
C13_Witness ==
    /\ Returned
    /\ e_call.result.decision = "DENY"
    /\ Len(e_call.matched) = 2
    /\ DenyMatchAt(1)
    /\ e_call.matched[2].rule.action = "redact"
    /\ e_call.matched[1].policy = e_call.matched[2].policy
    /\ e_call.result.pii_matches # <<>>


(***************************************************************************)
(* PIIRedactor._luhn_check.                                                *)
(***************************************************************************)
MaxDigits == 4      \* longest card_number given to _luhn_check

Digits == {"0", "1", "2", "3", "4", "5", "6", "7", "8", "9"}

\* int(d) for a decimal digit.
DigitValue(d) ==
    CASE d = "0" -> 0 [] d = "1" -> 1 [] d = "2" -> 2 [] d = "3" -> 3
      [] d = "4" -> 4 [] d = "5" -> 5 [] d = "6" -> 6 [] d = "7" -> 7
      [] d = "8" -> 8 [] d = "9" -> 9

\* str.isdigit(): non-empty and digits only.
IsDigit(s) == s # <<>> /\ \A i \in 1..Len(s) : s[i] \in Digits

RECURSIVE SumSeq(_)
SumSeq(s) == IF s = <<>> THEN 0 ELSE Head(s) + SumSeq(Tail(s))

\* digits[i] *= 2; if digits[i] > 9: digits[i] -= 9   (i counts from 0)
DoubleAt(digits, i) ==
    [digits EXCEPT ![i + 1] = IF 2 * @ > 9 THEN 2 * @ - 9 ELSE 2 * @]

\* for i in range(start, stop, step), for a step of either sign.
RECURSIVE DoubleLoop(_, _, _, _)
DoubleLoop(digits, i, stop, step) ==
    IF (step < 0 /\ i <= stop) \/ (step > 0 /\ i >= stop) THEN digits
    ELSE DoubleLoop(DoubleAt(digits, i), i + step, stop, step)

\* A check that doubles every second digit counted from the left.
luhn_check_from_left(number) ==
    IF ~IsDigit(number) THEN FALSE
    ELSE LET digits == [i \in 1..Len(number) |-> DigitValue(number[i])]
         IN  SumSeq(DoubleLoop(digits, 0, Len(digits), 2)) % 10 = 0

luhn_check(number) ==
    IF ~IsDigit(number) THEN FALSE
    ELSE LET digits == [i \in 1..Len(number) |-> DigitValue(number[i])]
         IN  SumSeq(DoubleLoop(digits, Len(digits) - 2, -1, -2)) % 10 = 0

\* The characters of the model's card numbers: the digits and one other.
CardChars == Digits \cup {"-"}

CardNumbers == UNION {[1..n -> CardChars] : n \in 0..MaxDigits}

LuhnInit ==
    /\ OthersIdle
    /\ RedactorIdle
    /\ ReceiptIdle
    /\ EngineIdle
    /\ DictIdle
    /\ card_number \in CardNumbers
    /\ luhn_result = None

LuhnCheck ==
    /\ luhn_result = None
    /\ luhn_result' = Some(luhn_check(card_number))
    /\ UNCHANGED <<card_number, not_lvars>>

LuhnNext == LuhnCheck

LuhnSpec == LuhnInit /\ [][LuhnNext]_vars

\* The Luhn sum of a digit string: the digit at position p counted from
\* the right (p = 1 for the last) counts as itself if p is odd and as its
\* double, less 9 where the double exceeds 9, if p is even.
LuhnSum(number) ==
    LET n == Len(number)
        Weighted(p) ==
            LET d == DigitValue(number[n - p + 1])
            IN  IF p % 2 = 1 THEN d
                ELSE IF 2 * d > 9 THEN 2 * d - 9 ELSE 2 * d
    IN  SumSeq([p \in 1..n |-> Weighted(p)])

\* C15: for a non-empty string of decimal digits _luhn_check returns True
\* exactly when the Luhn sum is divisible by 10.
C15_LuhnCorrect ==
    (luhn_result # None /\ IsDigit(card_number)) =>
        (luhn_result.val <=> (LuhnSum(card_number) % 10 = 0))

\* _luhn_check accepted a number of odd length whose second digit doubles
\* to more than 9.
C15_Witness ==
    /\ luhn_result = Some(TRUE)
    /\ Len(card_number) = 3
    /\ card_number[2] \in {"5", "6", "7", "8", "9"}


(***************************************************************************)
(* PIIRedactor.redact_dict called on its own.                              *)
(***************************************************************************)
MaxItems == 2       \* longest list held by the map given to redact_dict

\* What a list of the input map can hold: strings, a number, a list, maps.
ListItems ==
    {StrV(Mail), StrV(Clean), IntV(30), ListV(<<StrV(Mail)>>)}
        \cup {DictV(d) : d \in NestedMaps}

Lists == UNION {[1..n -> ListItems] : n \in 0..MaxItems}

\* What a key of the input map can hold.
DictValues ==
    {StrV(Mail), StrV(Clean), IntV(30)}
        \cup {ListV(l) : l \in Lists}
        \cup {DictV(d) : d \in NestedMaps}
        \cup {DictV([email |-> ListV(<<StrV(Clean), StrV(Mail)>>)])}

DictData == UNION {[keys -> DictValues] : keys \in SUBSET {"email", "user"}}

DictInit ==
    /\ OthersIdle
    /\ RedactorIdle
    /\ ReceiptIdle
    /\ EngineIdle
    /\ LuhnIdle
    /\ d_enabled \in {PIIType, PIIType \ {"email", "phone"}}
    /\ d_data \in {DictV(d) : d \in DictData}
    /\ d_call = None

\* redacted, matches = redactor.redact_dict(data); the call reads data and
\* assigns only into the maps and lists it creates.
RedactDict ==
    /\ d_call = None
    /\ d_call' = [data |-> d_data,
                  returned |-> redact_dict(d_data.val, d_enabled)]
    /\ UNCHANGED <<d_enabled, d_data, not_dvars>>

DictNext == RedactDict

DictSpec == DictInit /\ [][DictNext]_vars

\* redact_text of a string, from detection on.
RedactedString(text, enabled_types) ==
    redact_text(text, detect_all(text, enabled_types))

\* What the claim expects of a map: the same keys; strings redacted, maps
\* and lists handled alike, other values as they are.  In a list, strings
\* and maps are handled and every other element stays as it is.
RECURSIVE ExpectedMap(_, _)
RECURSIVE ExpectedElement(_, _)
ExpectedValue(v, et) ==
    IF v.kind = "list"
    THEN ListV([i \in 1..Len(v.val) |-> ExpectedElement(v.val[i], et)])
    ELSE ExpectedElement(v, et)

ExpectedElement(x, et) ==
    IF x.kind = "str" THEN StrV(RedactedString(x.val, et).redacted_text)
    ELSE IF x.kind = "dict" THEN DictV(ExpectedMap(x.val, et))
    ELSE x

ExpectedMap(d, et) == [k \in DOMAIN d |-> ExpectedValue(d[k], et)]

\* The matches of all those strings, in the order the map is walked.
RECURSIVE MatchesOfMap(_, _)
RECURSIVE MatchesOfAll(_, _)
MatchesOfElement(x, et) ==
    IF x.kind = "str" THEN RedactedString(x.val, et).matches
    ELSE IF x.kind = "dict" THEN MatchesOfMap(x.val, et)
    ELSE <<>>

MatchesOfAll(xs, et) ==
    IF xs = <<>> THEN <<>>
    ELSE (IF Head(xs).kind = "list"
          THEN MatchesOfAll([i \in 1..Len(Head(xs).val) |->
                                IF Head(xs).val[i].kind = "list" THEN IntV(0)
                                ELSE Head(xs).val[i]], et)
          ELSE MatchesOfElement(Head(xs), et))
         \o MatchesOfAll(Tail(xs), et)

MatchesOfMap(d, et) ==
    LET keys == KeysIn(d, KeyOrder)
    IN  MatchesOfAll([i \in 1..Len(keys) |-> d[keys[i]]], et)

\* Every string at any depth replaced, lists inside lists included.
RECURSIVE DeepRedacted(_, _)
DeepRedacted(v, et) ==
    IF v.kind = "str" THEN StrV(RedactedString(v.val, et).redacted_text)
    ELSE IF v.kind = "dict"
    THEN DictV([k \in DOMAIN v.val |-> DeepRedacted(v.val[k], et)])
    ELSE IF v.kind = "list"
    THEN ListV([i \in 1..Len(v.val) |-> DeepRedacted(v.val[i], et)])
    ELSE v

RECURSIVE Flatten(_)
Flatten(ss) == IF ss = <<>> THEN <<>> ELSE Head(ss) \o Flatten(Tail(ss))

\* The matches of every string at any depth, in the order of the walk.
RECURSIVE DeepMatches(_, _)
DeepMatches(v, et) ==
    IF v.kind = "str" THEN RedactedString(v.val, et).matches
    ELSE IF v.kind = "dict"
    THEN LET keys == KeysIn(v.val, KeyOrder)
         IN  Flatten([i \in 1..Len(keys) |-> DeepMatches(v.val[keys[i]], et)])
    ELSE IF v.kind = "list"
    THEN Flatten([i \in 1..Len(v.val) |-> DeepMatches(v.val[i], et)])
    ELSE <<>>

\* C17 as stated: redact_dict returns a new map with the keys and nesting
\* of its input in which every string value, every string inside a list
\* and every string reachable through nested maps or maps inside lists is
\* replaced by its redact_text result and all other values are as they
\* were; the matches returned are those of all these strings; the input
\* map is as it was.
C17_Original ==
    d_call # None =>
        /\ DictV(d_call.returned.redacted) = DeepRedacted(d_call.data, d_enabled)
        /\ d_call.returned.all_matches = DeepMatches(d_call.data, d_enabled)
        /\ d_data = d_call.data

\* C17 amended: redact_dict returns a new map with the keys and nesting of
\* its input in which every string that is a value of a map, or an element
\* of a list that is a value of a map, is replaced by its redact_text
\* result, maps that are values of maps or elements of such lists being
\* treated alike; all other values, lists that are elements of lists
\* included, are as they were; the matches returned are those of the
\* replaced strings, concatenated in the order of the walk; the input map
\* is as it was.
C17_RedactDict ==
    d_call # None =>
        /\ d_call.returned.redacted = ExpectedMap(d_call.data.val, d_enabled)
        /\ d_call.returned.all_matches = MatchesOfMap(d_call.data.val, d_enabled)
        /\ d_data = d_call.data

\* redact_dict found the address in a string of a list and in a map of
\* the same list, passed a number through, and left a list inside a list
\* as it was.
C17_Witness ==
    /\ d_call # None
    /\ "user" \in DOMAIN d_data.val
    /\ d_data.val["user"] =
          ListV(<<StrV(Mail), DictV([email |-> StrV(Mail), name |-> StrV(Clean)])>>)
    /\ "email" \in DOMAIN d_data.val
    /\ d_data.val["email"] = ListV(<<IntV(30), ListV(<<StrV(Mail)>>)>>)
    /\ Len(d_call.returned.all_matches) = 2
    /\ d_call.returned.redacted["email"] = d_data.val["email"]


(***************************************************************************)
(* The policy registry under add_policy, remove_policy and evaluate.       *)
(***************************************************************************)
MaxRegistryRules == 1    \* most rules of a policy given to add_policy

\* The rules of the policies given to add_policy: a deny rule and a redact
\* rule on different fields.
RegistryRules ==
    {PolicyRule("user.email", "regex", StrV(<<"@">>), "deny"),
     PolicyRule("email", "equals", StrV(Mail), "redact")}

RegistryPolicies ==
    [name : {PolicyNames[i] : i \in 1..Len(PolicyNames)},
     rules : UNION {[1..m -> RegistryRules] : m \in 0..MaxRegistryRules},
     enabled : BOOLEAN,
     priority : Priorities]

\* GovernanceEngine() with the defaults of its constructor.
RegistryInit ==
    /\ OthersIdle
    /\ RedactorIdle
    /\ ReceiptIdle
    /\ LuhnIdle
    /\ DictIdle
    /\ e_policies = <<>>
    /\ e_pii_redactor = None
    /\ e_enable_auto_redaction = TRUE
    /\ e_call = NoCall

AddPolicy ==
    /\ e_call = NoCall
    /\ \E policy \in RegistryPolicies :
          /\ e_policies' = add_policy(e_policies, policy)
          /\ e_call' = [op |-> "add_policy", before |-> e_policies,
                        policy |-> policy]
    /\ UNCHANGED <<e_pii_redactor, e_enable_auto_redaction, not_evars>>

RemovePolicy ==
    /\ e_call = NoCall
    /\ \E i \in 1..Len(PolicyNames) :
          LET r == remove_policy(e_policies, PolicyNames[i])
          IN  /\ e_policies' = r.policies
              /\ e_call' = [op |-> "remove_policy", before |-> e_policies,
                            name |-> PolicyNames[i], returned |-> r.returned]
    /\ UNCHANGED <<e_pii_redactor, e_enable_auto_redaction, not_evars>>

RegistryNext == AddPolicy \/ RemovePolicy \/ Evaluate \/ Return

RegistrySpec == RegistryInit /\ [][RegistryNext]_vars

\* The registry read as a map from names to policies.
NamesIn(policies) == {policies[i].name : i \in 1..Len(policies)}

PolicyNamed(policies, name) ==
    policies[CHOOSE i \in 1..Len(policies) : policies[i].name = name]

\* The rules of enabled registered policies that match the payload.
MatchingRules(policies, payload) ==
    {[policy |-> policies[i].name, rule |-> policies[i].rules[j]] :
        <<i, j>> \in {<<i, j>> \in (1..Len(policies)) \X (1..MaxRegistryRules) :
                        /\ policies[i].enabled
                        /\ j <= Len(policies[i].rules)
                        /\ check_rule(policies[i].rules[j], TopOf(payload),
                                      HeapOf(payload)) = "match"}}

\* C20: the registry holds at most one policy per name; add_policy makes
\* its policy the one held under its name and leaves the other names as
\* they were; remove_policy returns True and drops the name if it is held,
\* and returns False and changes nothing otherwise; the rules evaluate
\* applies are exactly the matching rules of the enabled policies held.
C20_RegistryIsMap ==
    /\ \A i, j \in 1..Len(e_policies) :
          e_policies[i].name = e_policies[j].name => i = j
    /\ e_call.op = "add_policy" =>
          /\ NamesIn(e_policies) = NamesIn(e_call.before) \cup {e_call.policy.name}
          /\ \A n \in NamesIn(e_policies) :
                PolicyNamed(e_policies, n) =
                    IF n = e_call.policy.name THEN e_call.policy
                    ELSE PolicyNamed(e_call.before, n)
    /\ e_call.op = "remove_policy" =>
          /\ e_call.returned = (e_call.name \in NamesIn(e_call.before))
          /\ NamesIn(e_policies) = NamesIn(e_call.before) \ {e_call.name}
          /\ \A n \in NamesIn(e_policies) :
                PolicyNamed(e_policies, n) = PolicyNamed(e_call.before, n)
          /\ ~e_call.returned => e_policies = e_call.before
    /\ e_call.op = "evaluate" =>
          {e_call.matched[i] : i \in 1..Len(e_call.matched)} =
              MatchingRules(e_policies, e_call.payload)

\* add_policy was called with a name the registry held first of two, with
\* a policy other than the one held.
C20_Witness ==
    /\ e_call.op = "add_policy"
    /\ Len(e_call.before) = 2
    /\ e_call.before[1].name = e_call.policy.name
    /\ e_call.before[1] # e_call.policy
    /\ Len(e_policies) = 2

(***************************************************************************)
(* Workflow engine (tork/workflows/engine.py).  One engine built with the  *)
(* default GovernanceEngine, which has no policy and no redactor and so    *)
(* allows every step, and one workflow id.  An executor either returns or  *)
(* raises: each invocation is a choice between the two, and an operation   *)
(* is the set of the runs these choices allow.                             *)
(***************************************************************************)
MaxSteps == 2       \* most steps of a workflow
MaxRetry == 2       \* largest retry_count of a step

\* WorkflowStep: config["cost"] is kept as the field cost.
WorkflowStep(id, on_failure, retry_count, fallback_step_id, cost) ==
    [id |-> id, agent_type |-> "custom", on_failure |-> on_failure,
     retry_count |-> retry_count, fallback_step_id |-> fallback_step_id,
     cost |-> cost]

WorkflowDefinition(steps, require_human_approval, max_total_cost) ==
    [id |-> "wf", steps |-> steps,
     require_human_approval |-> require_human_approval,
     max_total_cost |-> max_total_cost]

\* StepResult; error is "none" for the default None.
StepResult(step_id, status, error, cost) ==
    [step_id |-> step_id, status |-> status, error |-> error, cost |-> cost]

\* WorkflowEngine._executors after register_executor("custom", ...).
Executors == {"custom"}

\* One call of an executor: the step it was given and whether it returned
\* ("success") or raised ("failed").
Invocation(step, status) == [step_id |-> step.id, status |-> status]

\* What one or more _execute_step calls came to: the StepResult of the last
\* one and the executor invocations made, in order.
StepRun(result, invoked) == [result |-> result, invoked |-> invoked]

\* _execute_step: the governance engine allows the step; without an
\* executor the step fails, otherwise the executor is invoked and returns
\* or raises.
execute_step(step) ==
    IF step.agent_type \notin Executors
    THEN {StepRun(StepResult(step.id, "failed", "no_executor", 0), <<>>)}
    ELSE {StepRun(StepResult(step.id, "success", "none", step.cost),
                  <<Invocation(step, "success")>>),
          StepRun(StepResult(step.id, "failed", "raised", 0),
                  <<Invocation(step, "failed")>>)}

\* result = self._execute_step(...) after earlier attempts.
NextAttempt(run, attempt) ==
    StepRun(attempt.result, run.invoked \o attempt.invoked)

\* The retry loop runs range(retry_count) times whatever an attempt returns.
RECURSIVE RetryLoop_no_break(_, _, _)
RetryLoop_no_break(step, n, run) ==
    IF n <= 0
    THEN {run}
    ELSE UNION {RetryLoop_no_break(step, n - 1, NextAttempt(run, a)) :
                  a \in execute_step(step)}

\* for _ in range(n): result = _execute_step(...); break on "success".
RECURSIVE RetryLoop(_, _, _)
RetryLoop(step, n, run) ==
    IF n <= 0
    THEN {run}
    ELSE UNION {IF a.result.status = "success"
                THEN {NextAttempt(run, a)}
                ELSE RetryLoop(step, n - 1, NextAttempt(run, a)) :
                  a \in execute_step(step)}

\* next((s for s in workflow.steps if s.id == id), None)
RECURSIVE FindStep(_, _, _)
FindStep(steps, id, i) ==
    IF i > Len(steps) THEN None
    ELSE IF steps[i].id = id THEN Some(steps[i])
    ELSE FindStep(steps, id, i + 1)

\* The StepResult built from the failed result and the fallback's result.
FallbackResult(step, run, fallback_run) ==
    StepRun(StepResult(step.id, fallback_run.result.status,
                       fallback_run.result.error,
                       run.result.cost + fallback_run.result.cost),
            run.invoked \o fallback_run.invoked)

\* The fallback branch of _execute_step_with_retries.
RunFallback(step, run, fallback_step) ==
    IF fallback_step = None
    THEN {run}
    ELSE {FallbackResult(step, run, f) : f \in execute_step(fallback_step.val)}

Fallback(step, workflow, run) ==
    IF /\ run.result.status = "failed"
       /\ step.on_failure = "fallback"
       /\ step.fallback_step_id # None
    THEN RunFallback(step, run,
                     FindStep(workflow.steps, step.fallback_step_id.val, 1))
    ELSE {run}

\* The body of `if result.status == "failed":` after the first attempt.
AfterFailure(step, workflow, run) ==
    UNION {Fallback(step, workflow, r) :
             r \in IF step.on_failure = "retry"
                   THEN RetryLoop(step, step.retry_count, run)
                   ELSE {run}}

execute_step_with_retries(step, workflow) ==
    UNION {IF first.result.status = "failed"
           THEN AfterFailure(step, workflow, first)
           ELSE {first} : first \in execute_step(step)}

\* step_results[step_id] = result on a dict kept in insertion order.
RECURSIVE DictSet(_, _)
DictSet(step_results, result) ==
    IF step_results = <<>>
    THEN <<result>>
    ELSE IF Head(step_results).step_id = result.step_id
         THEN <<result>> \o Tail(step_results)
         ELSE <<Head(step_results)>> \o DictSet(Tail(step_results), result)

\* The locals of execute and resume, with the executor invocations made and
\* the passes made: the step handed to _execute_step_with_retries, total_cost
\* at that point, the invocations of the pass and the status it returned;
\* reached lists the steps the loop came to and total_cost at that point.
RunState(step_results, total_cost, status, invoked, started, reached, paused) ==
    [step_results |-> step_results, total_cost |-> total_cost,
     status |-> status, invoked |-> invoked, started |-> started,
     reached |-> reached, paused |-> paused]

\* The loop of execute or resume comes to a step.
Reach(step, st) ==
    [st EXCEPT !.reached = Append(st.reached,
                                  [step_id |-> step.id,
                                   total_cost |-> st.total_cost])]

\* The entry execute stores in _paused_workflows.
PausedState(workflow, step, st) ==
    [workflow |-> workflow, step_results |-> st.step_results,
     pending_step_id |-> step.id, total_cost |-> st.total_cost]

\* The approval branch of execute.
Pause(workflow, step, st) ==
    RunState(DictSet(st.step_results,
                     StepResult(step.id, "pending_approval", "none", 0)),
             st.total_cost, "paused", st.invoked, st.started, st.reached,
             Some(PausedState(workflow, step, st)))

\* The cost test lets every step start.
CostExceeded_never(workflow, total_cost) == FALSE

\* workflow.max_total_cost is not None and total_cost >= max_total_cost
CostExceeded(workflow, total_cost) ==
    /\ workflow.max_total_cost # None
    /\ total_cost >= workflow.max_total_cost.val

\* The cost branch of execute and resume.
MaxCostFailure(step, st) ==
    RunState(DictSet(st.step_results,
                     StepResult(step.id, "failed", "Max cost exceeded", 0)),
             st.total_cost, "failed", st.invoked, st.started, st.reached,
             st.paused)

\* step_results[step.id] = result; total_cost += result.cost
Record(step, st, run) ==
    RunState(DictSet(st.step_results, run.result),
             st.total_cost + run.result.cost, st.status,
             st.invoked \o run.invoked,
             Append(st.started, [step |-> step,
                                 total_cost |-> st.total_cost,
                                 attempts |-> run.invoked,
                                 status |-> run.result.status]),
             st.reached, st.paused)

\* if result.status == "failed": if step.on_failure == "stop": break
Stops(step, result) ==
    result.status = "failed" /\ step.on_failure = "stop"

RECURSIVE ExecuteLoop(_, _, _)
\* The end of one pass of the loop of execute.
ExecuteAfterStep(workflow, i, step, st, result) ==
    IF Stops(step, result)
    THEN {[st EXCEPT !.status = "failed"]}
    ELSE ExecuteLoop(workflow, i + 1, st)

ExecuteStep(workflow, i, step, st) ==
    IF step.id \in workflow.require_human_approval
    THEN {Pause(workflow, step, st)}
    ELSE IF CostExceeded(workflow, st.total_cost)
         THEN {MaxCostFailure(step, st)}
         ELSE UNION {ExecuteAfterStep(workflow, i, step, Record(step, st, run),
                                      run.result) :
                       run \in execute_step_with_retries(step, workflow)}

\* for step in workflow.steps, from the i-th on.
ExecuteLoop(workflow, i, st) ==
    IF i > Len(workflow.steps)
    THEN {st}
    ELSE ExecuteStep(workflow, i, workflow.steps[i],
                     Reach(workflow.steps[i], st))

\* The runs of execute(workflow, initial_input).
execute(workflow) ==
    ExecuteLoop(workflow, 1,
                RunState(<<>>, 0, "completed", <<>>, <<>>, <<>>, None))

RECURSIVE ResumeLoop(_, _, _, _, _)
ResumeAfterStep(workflow, i, pending_step_id, step, st, result) ==
    IF Stops(step, result)
    THEN {[st EXCEPT !.status = "failed"]}
    ELSE ResumeLoop(workflow, i + 1, TRUE, pending_step_id, st)

ResumeStep(workflow, i, pending_step_id, step, st) ==
    IF CostExceeded(workflow, st.total_cost)
    THEN {MaxCostFailure(step, st)}
    ELSE UNION {ResumeAfterStep(workflow, i, pending_step_id, step,
                                Record(step, st, run), run.result) :
                  run \in execute_step_with_retries(step, workflow)}

\* for step in workflow.steps of resume, from the i-th on.
ResumeLoop(workflow, i, found_pending, pending_step_id, st) ==
    IF i > Len(workflow.steps)
    THEN {st}
    ELSE IF found_pending \/ workflow.steps[i].id = pending_step_id
         THEN ResumeStep(workflow, i, pending_step_id, workflow.steps[i],
                         Reach(workflow.steps[i], st))
         ELSE ResumeLoop(workflow, i + 1, FALSE, pending_step_id, st)

\* The runs of resume(workflow_id, approval) on the popped state.
resume(state, approval) ==
    IF ~approval
    THEN {RunState(state.step_results, state.total_cost, "cancelled",
                   <<>>, <<>>, <<>>, None)}
    ELSE ResumeLoop(state.workflow, 1, FALSE, state.pending_step_id,
                    RunState(state.step_results, state.total_cost,
                             "completed", <<>>, <<>>, <<>>, None))

(***************************************************************************)
(* Inputs of the workflow engine.                                          *)
(***************************************************************************)
StepIds == <<"s1", "s2", "s3">>

StepCosts == {0, 1}

\* The max_total_cost values: not set, or a limit.
CostLimits == {None, Some(1)}

\* No fallback, or the id of the next position, which the first position
\* follows; a shorter workflow has no step of that id.
FallbackIds(i) == {None, Some(StepIds[(i % MaxSteps) + 1])}

\* retry_count is an int without a lower limit.
RetryCounts == {-1, 0, 1, MaxRetry}

\* The steps a workflow may have at position i.
StepsAt(i) ==
    {WorkflowStep(StepIds[i], f, MaxRetry, None, c) :
        f \in {"stop", "skip"}, c \in StepCosts}
    \cup {WorkflowStep(StepIds[i], "retry", r, None, c) :
            r \in RetryCounts, c \in StepCosts}
    \cup {WorkflowStep(StepIds[i], "fallback", MaxRetry, fb, c) :
            fb \in FallbackIds(i), c \in StepCosts}

StepLists(n) ==
    {steps \in [1..n -> UNION {StepsAt(i) : i \in 1..n}] :
        \A i \in 1..n : steps[i] \in StepsAt(i)}

Workflows ==
    {WorkflowDefinition(steps, approval, limit) :
        steps \in UNION {StepLists(n) : n \in 0..MaxSteps},
        approval \in SUBSET {StepIds[k] : k \in 1..MaxSteps},
        limit \in CostLimits}

WorkflowInit ==
    /\ RedactorIdle
    /\ ReceiptIdle
    /\ EngineIdle
    /\ LuhnIdle
    /\ DictIdle
    /\ RouterIdle
    /\ JwtIdle
    /\ FlagIdle
    /\ w_workflow \in Workflows
    /\ w_paused_workflows = None
    /\ w_call = NoCall

\* The record of a call on the workflow engine.
WorkflowCall(op, approval, pending, st) ==
    [op |-> op, approval |-> approval, pending |-> pending,
     status |-> st.status, step_results |-> st.step_results,
     total_cost |-> st.total_cost, invoked |-> st.invoked,
     started |-> st.started, reached |-> st.reached]

\* engine.execute(workflow, initial_input)
Execute ==
    /\ w_call = NoCall
    /\ \E st \in execute(w_workflow) :
          /\ w_call' = WorkflowCall("execute", FALSE, "none", st)
          /\ w_paused_workflows' =
                IF st.paused # None THEN st.paused ELSE w_paused_workflows
    /\ UNCHANGED <<w_workflow, not_wvars>>

\* engine.resume(workflow.id, approval) with a paused workflow
Resume ==
    /\ w_call = NoCall
    /\ w_paused_workflows # None
    /\ \E approval \in BOOLEAN :
          \E st \in resume(w_paused_workflows.val, approval) :
             w_call' = WorkflowCall("resume", approval,
                          w_paused_workflows.val.pending_step_id, st)
    /\ w_paused_workflows' = None
    /\ UNCHANGED <<w_workflow, not_wvars>>

\* engine.resume(workflow.id, approval) without one: returns None
ResumeNotFound ==
    /\ w_call = NoCall
    /\ w_paused_workflows = None
    /\ w_call' = [op |-> "resume_none"]
    /\ UNCHANGED <<w_workflow, w_paused_workflows, not_wvars>>

\* The result goes back to the caller.
WorkflowReturn ==
    /\ w_call # NoCall
    /\ w_call' = NoCall
    /\ UNCHANGED <<w_workflow, w_paused_workflows, not_wvars>>

WorkflowNext == Execute \/ Resume \/ ResumeNotFound \/ WorkflowReturn

WorkflowSpec == WorkflowInit /\ [][WorkflowNext]_vars


(***************************************************************************)
(* Claims about the workflow engine.                                       *)
(***************************************************************************)
\* A call of execute or resume that ran the workflow has ended.
WorkflowRan == w_call # NoCall /\ w_call.op \in {"execute", "resume"}

\* C21: the executor of a step listed in require_human_approval is invoked
\* only by a resume(workflow_id, approval=True) made while the workflow was
\* paused at that very step; execute and resume invoke it in no other case.
C21_ApprovalGate ==
    WorkflowRan =>
        \A k \in 1..Len(w_call.invoked) :
            w_call.invoked[k].step_id \in w_workflow.require_human_approval =>
                /\ w_call.op = "resume"
                /\ w_call.approval
                /\ w_call.invoked[k].step_id = w_call.pending


\* The passes over a step with on_failure = "retry" made by the last call.
RetryPasses ==
    IF WorkflowRan
    THEN {w_call.started[k] : k \in {j \in 1..Len(w_call.started) :
                                 w_call.started[j].step.on_failure = "retry"}}
    ELSE {}

\* The attempts of a pass that came back with "success".
Successes(pass) ==
    {k \in 1..Len(pass.attempts) : pass.attempts[k].status = "success"}

\* A pass makes no attempt after its first success and returns "success"
\* exactly when an attempt succeeded; every attempt is on the step itself.
StopsAtSuccess(pass) ==
    /\ \A k \in 1..Len(pass.attempts) :
          pass.attempts[k].step_id = pass.step.id
    /\ Successes(pass) \subseteq {Len(pass.attempts)}
    /\ pass.status = "success" <=> Successes(pass) # {}

\* C22 as stated: one pass over a step with on_failure = "retry" invokes the
\* executor of that step at most 1 + retry_count times, makes no attempt
\* after the first success, and returns "success" exactly when an attempt
\* succeeded.
C22_Original ==
    \A pass \in RetryPasses :
        /\ Len(pass.attempts) <= 1 + pass.step.retry_count
        /\ StopsAtSuccess(pass)

\* C22: one pass over a step with on_failure = "retry" invokes the executor
\* of that step at most 1 + max(retry_count, 0) times, makes no attempt after
\* the first success, and returns "success" exactly when an attempt
\* succeeded.
C22_BoundedRetry ==
    \A pass \in RetryPasses :
        /\ Len(pass.attempts) <= 1 + Max(pass.step.retry_count, 0)
        /\ \A k \in 1..Len(pass.attempts) :
              pass.attempts[k].step_id = pass.step.id
        /\ Successes(pass) \subseteq {Len(pass.attempts)}
        /\ pass.status = "success" <=> Successes(pass) # {}

\* A pass that failed once, succeeded on the first retry and left the
\* remaining retry unused.
C22_Witness ==
    \E pass \in RetryPasses :
        /\ pass.step.retry_count = 2
        /\ Len(pass.attempts) = 2
        /\ pass.attempts[1].status = "failed"
        /\ pass.status = "success"


\* The recorded result of a step in the last call's step_results.
ResultsOf(step_id) ==
    {w_call.step_results[k] : k \in {j \in 1..Len(w_call.step_results) :
                                 w_call.step_results[j].step_id = step_id}}

\* The steps the last call reached with total_cost at or over the limit.
OverLimit ==
    IF WorkflowRan /\ w_workflow.max_total_cost # None
    THEN {k \in 1..Len(w_call.reached) :
            w_call.reached[k].total_cost >= w_workflow.max_total_cost.val}
    ELSE {}

\* With max_total_cost set, every pass began with total_cost below it, and a
\* step reached at or over the limit is the last one reached and was handed
\* to no pass.
StartsBelowLimit ==
    /\ WorkflowRan /\ w_workflow.max_total_cost # None =>
          \A k \in 1..Len(w_call.started) :
              w_call.started[k].total_cost < w_workflow.max_total_cost.val
    /\ \A k \in OverLimit :
          /\ k = Len(w_call.reached)
          /\ Len(w_call.started) = k - 1

\* The step reached at or over the limit is recorded as failed with the
\* error "Max cost exceeded" and the workflow status is "failed".
RecordedAsCostFailure(k) ==
    /\ w_call.status = "failed"
    /\ ResultsOf(w_call.reached[k].step_id) =
          {StepResult(w_call.reached[k].step_id, "failed",
                      "Max cost exceeded", 0)}

\* execute paused at the step instead: the approval test comes first.
RecordedAsPending(k) ==
    /\ w_call.op = "execute"
    /\ w_call.reached[k].step_id \in w_workflow.require_human_approval
    /\ w_call.status = "paused"
    /\ ResultsOf(w_call.reached[k].step_id) =
          {StepResult(w_call.reached[k].step_id, "pending_approval",
                      "none", 0)}

\* C23 as stated: with max_total_cost set, a step is started only while
\* total_cost is below the limit; the first step reached at or over the limit
\* is not executed, is recorded as failed with "Max cost exceeded", the
\* workflow status is "failed" and no later step runs.
C23_Original ==
    /\ StartsBelowLimit
    /\ \A k \in OverLimit : RecordedAsCostFailure(k)

\* C23: with max_total_cost set, a step is started only while total_cost is
\* below the limit; the first step reached at or over the limit is not
\* executed and no later step runs; it is recorded as failed with "Max cost
\* exceeded" and the workflow status is "failed", unless execute reached it
\* and it is listed in require_human_approval, where the workflow pauses at
\* it with the result "pending_approval".
C23_CostLimit ==
    /\ StartsBelowLimit
    /\ \A k \in OverLimit :
          IF /\ w_call.op = "execute"
             /\ w_call.reached[k].step_id \in w_workflow.require_human_approval
          THEN RecordedAsPending(k)
          ELSE RecordedAsCostFailure(k)

\* A step ran and the next one was reached at the limit and recorded as
\* failed.
C23_Witness ==
    /\ OverLimit # {}
    /\ Len(w_call.started) >= 1
    /\ w_call.status = "failed"
    /\ \A k \in OverLimit : RecordedAsCostFailure(k)


(***************************************************************************)
(* ACL router (tork/acl/router.py) with the protocols of                   *)
(* tork/acl/protocols.py.  The governance engine of the router allows or   *)
(* denies a message; a handler returns a message, returns None or raises.  *)
(***************************************************************************)
MaxMessages == 3      \* most messages recorded in a conversation

\* Performative values.
Performative ==
    {"request", "inform", "propose", "accept", "reject", "query", "confirm",
     "cancel", "failure", "agree", "refuse", "cfp"}

\* ACLRouter._protocols, by name.
Protocols == {"fipa-request", "fipa-contract-net", "fipa-query"}

\* FIPARequestProtocol.valid_transitions
RequestTransitions(current_performative) ==
    CASE current_performative = "request" -> {"agree", "refuse"}
      [] current_performative = "agree" -> {"inform", "failure"}
      [] OTHER -> {}

\* FIPAContractNetProtocol.valid_transitions
ContractNetTransitions(current_performative) ==
    CASE current_performative = "cfp" -> {"propose", "refuse"}
      [] current_performative = "propose" -> {"accept", "reject"}
      [] current_performative = "accept" -> {"inform", "failure"}
      [] OTHER -> {}

\* FIPAQueryProtocol.valid_transitions
QueryTransitions(current_performative) ==
    CASE current_performative = "query" -> {"inform", "failure"}
      [] OTHER -> {}

valid_transitions(protocol, current_performative) ==
    CASE protocol = "fipa-request" -> RequestTransitions(current_performative)
      [] protocol = "fipa-contract-net" ->
            ContractNetTransitions(current_performative)
      [] protocol = "fipa-query" -> QueryTransitions(current_performative)

is_terminal(protocol, performative) ==
    CASE protocol = "fipa-request" ->
            performative \in {"refuse", "inform", "failure"}
      [] protocol = "fipa-contract-net" ->
            performative \in {"refuse", "reject", "inform", "failure"}
      [] protocol = "fipa-query" -> performative \in {"inform", "failure"}

initial_performatives(protocol) ==
    CASE protocol = "fipa-request" -> {"request"}
      [] protocol = "fipa-contract-net" -> {"cfp"}
      [] protocol = "fipa-query" -> {"query"}

\* Conversation as start_conversation builds it.
Conversation(id, protocol) ==
    [id |-> id, protocol |-> protocol, messages |-> <<>>,
     status |-> "active", ended_at |-> None]

\* ACLMessage: the fields send reads.
ACLMessage(performative, receiver, conversation_id) ==
    [performative |-> performative, receiver |-> receiver,
     conversation_id |-> conversation_id]

\* An entry of Conversation.messages: the performative, and whether the
\* message was given to send or returned by a handler.
Recorded(performative, origin) ==
    [performative |-> performative, origin |-> origin]

\* The protocol check passes every message.
validate_protocol_accepts_all(message, conversation) == TRUE

\* ACLRouter._validate_protocol
validate_protocol(message, conversation) ==
    IF conversation.protocol \notin Protocols
    THEN TRUE
    ELSE IF conversation.messages = <<>>
         THEN message.performative
                 \in initial_performatives(conversation.protocol)
         ELSE message.performative
                 \in valid_transitions(conversation.protocol,
                        conversation.messages[Len(conversation.messages)]
                            .performative)

\* self._conversations.get(id): the index in a_conversations, or 0.
RECURSIVE ConversationIndex(_, _, _)
ConversationIndex(conversations, id, i) ==
    IF i > Len(conversations) THEN 0
    ELSE IF conversations[i].id = id THEN i
    ELSE ConversationIndex(conversations, id, i + 1)

\* The conversation a message names: its index, or 0 without an id or
\* without a conversation of that id.
ConversationOf(conversations, message) ==
    IF message.conversation_id = None
    THEN 0
    ELSE ConversationIndex(conversations, message.conversation_id.val, 1)

\* self._conversations[id].messages.append(...)
AppendMessage(conversations, c, recorded) ==
    IF c = 0
    THEN conversations
    ELSE [conversations EXCEPT ![c].messages = Append(@, recorded)]

\* status = "completed"; ended_at = datetime.utcnow()
Complete(conversations, c) ==
    [conversations EXCEPT ![c].status = "completed",
                          ![c].ended_at = Some("utcnow")]

\* How a send ended: what the caller got, the conversations afterwards and
\* whether the receiver's handler was called.
SendResult(outcome, conversations, handler_called) ==
    [outcome |-> outcome, conversations |-> conversations,
     handler_called |-> handler_called]

Raise == [kind |-> "Raise"]

\* send after the handler returned response (None, or a message).
AfterHandler(conversations, c, response) ==
    IF response = None
    THEN SendResult("None", conversations, TRUE)
    ELSE IF c = 0
         THEN SendResult("response", conversations, TRUE)
         ELSE IF /\ conversations[c].protocol \in Protocols
                 /\ is_terminal(conversations[c].protocol, response.val)
              THEN SendResult("response",
                      Complete(AppendMessage(conversations, c,
                                  Recorded(response.val, "response")), c),
                      TRUE)
              ELSE SendResult("response",
                      AppendMessage(conversations, c,
                          Recorded(response.val, "response")),
                      TRUE)

\* send from the recording of the message on.
Deliver(agents, conversations, c, message, response) ==
    IF message.receiver = "all"
    THEN SendResult("None", conversations, FALSE)
    ELSE IF message.receiver \notin agents
         THEN SendResult("AgentNotFoundError", conversations, FALSE)
         ELSE IF response = Raise
              THEN SendResult("handler raised", conversations, TRUE)
              ELSE AfterHandler(conversations, c, response)

\* ACLRouter.send(message): decision is the governance engine's, response
\* is what the handler does if it is called.
send(agents, conversations, message, decision, response) ==
    IF /\ ConversationOf(conversations, message) # 0
       /\ ~validate_protocol(message,
              conversations[ConversationOf(conversations, message)])
    THEN SendResult("ProtocolViolationError", conversations, FALSE)
    ELSE IF decision = "deny"
         THEN SendResult("None", conversations, FALSE)
         ELSE Deliver(agents,
                      AppendMessage(conversations,
                          ConversationOf(conversations, message),
                          Recorded(message.performative, "sent")),
                      ConversationOf(conversations, message),
                      message, response)

(***************************************************************************)
(* Inputs of the router.                                                   *)
(***************************************************************************)
RouterAgents == {"b"}

\* Receivers: an agent, registered or not at the time, or a broadcast.
Receivers == RouterAgents \cup {"all"}

\* The ids start_conversation draws, in the order drawn.
ConversationIds == <<"c1">>

\* The protocol argument of start_conversation; "custom" is not registered.
ProtocolNames == Protocols \cup {"custom"}

\* conversation_id of a message: none, or an id that names a conversation
\* once start_conversation has drawn it.
MessageConversationIds == {None, Some("c1")}

Decisions == {"allow", "deny"}

\* The performatives handlers answer with: a next step of a protocol, a
\* terminal one, and one that no protocol has.
ResponsePerformatives == {"agree", "propose", "inform", "confirm"}

\* What a handler does: returns None, returns a message, or raises.
HandlerResponses ==
    {None, Raise} \cup {Some(p) : p \in ResponsePerformatives}

RouterInit ==
    /\ RedactorIdle
    /\ ReceiptIdle
    /\ EngineIdle
    /\ LuhnIdle
    /\ DictIdle
    /\ WorkflowIdle
    /\ JwtIdle
    /\ FlagIdle
    /\ a_agents = {}
    /\ a_conversations = <<>>
    /\ a_call = NoCall

\* router.register_agent(agent_id, handler)
RegisterAgent ==
    /\ a_call = NoCall
    /\ \E agent_id \in RouterAgents : a_agents' = a_agents \cup {agent_id}
    /\ UNCHANGED <<a_conversations, a_call, not_avars>>

\* router.unregister_agent(agent_id)
UnregisterAgent ==
    /\ a_call = NoCall
    /\ \E agent_id \in RouterAgents : a_agents' = a_agents \ {agent_id}
    /\ UNCHANGED <<a_conversations, a_call, not_avars>>

\* router.start_conversation(protocol, participants)
StartConversation ==
    /\ a_call = NoCall
    /\ Len(a_conversations) < Len(ConversationIds)
    /\ \E protocol \in ProtocolNames :
          a_conversations' =
              Append(a_conversations,
                     Conversation(ConversationIds[Len(a_conversations) + 1],
                                  protocol))
    /\ UNCHANGED <<a_agents, a_call, not_avars>>

\* Every conversation has room for n more messages within the bound.
RoomFor(n) ==
    \A c \in 1..Len(a_conversations) :
        Len(a_conversations[c].messages) + n <= MaxMessages

\* A send records the message, and the response if the handler returns one.
RoomForSend(response) ==
    IF response \in {None, Raise} THEN RoomFor(1) ELSE RoomFor(2)

\* The record of a send: the message, the conversations before, the result.
SendCall(message, before, result) ==
    [op |-> "send", message |-> message, before |-> before,
     outcome |-> result.outcome, handler_called |-> result.handler_called]

\* router.send(message)
Send ==
    /\ a_call = NoCall
    /\ \E performative \in Performative, receiver \in Receivers,
          conversation_id \in MessageConversationIds,
          decision \in Decisions, response \in HandlerResponses :
          LET result == send(a_agents, a_conversations,
                             ACLMessage(performative, receiver,
                                        conversation_id),
                             decision, response)
          IN  /\ RoomForSend(response)
              /\ a_conversations' = result.conversations
              /\ a_call' = SendCall(ACLMessage(performative, receiver,
                                               conversation_id),
                                    a_conversations, result)
    /\ UNCHANGED <<a_agents, not_avars>>

\* The result or the exception goes back to the caller.
RouterReturn ==
    /\ a_call # NoCall
    /\ a_call' = NoCall
    /\ UNCHANGED <<a_agents, a_conversations, not_avars>>

RouterNext ==
    \/ RegisterAgent
    \/ UnregisterAgent
    \/ StartConversation
    \/ Send
    \/ RouterReturn

RouterSpec == RouterInit /\ [][RouterNext]_vars


(***************************************************************************)
(* Claims about the router.                                                *)
(***************************************************************************)
\* The last call was a send.
Sent == a_call # NoCall /\ a_call.op = "send"

\* The conversation the sent message names, as it was before the send.
SentTo == ConversationOf(a_call.before, a_call.message)

\* The message names an existing conversation with a registered protocol.
Governed == Sent /\ SentTo # 0 /\ a_call.before[SentTo].protocol \in Protocols

\* The performative is an initial one of the conversation's protocol if no
\* message is recorded, and a valid transition from the last recorded
\* message's performative otherwise.
FollowsProtocol(performative, conversation) ==
    IF Len(conversation.messages) = 0
    THEN performative \in initial_performatives(conversation.protocol)
    ELSE performative \in
            valid_transitions(conversation.protocol,
                conversation.messages[Len(conversation.messages)].performative)

\* C24: for a message that names an existing conversation with a registered
\* protocol, send raises ProtocolViolationError, recording nothing and
\* calling no handler, exactly when the performative is neither an initial
\* one on an empty conversation nor a valid transition from the last
\* recorded message's performative.
C24_ProtocolEnforced ==
    Governed =>
        /\ a_call.outcome = "ProtocolViolationError" <=>
              ~FollowsProtocol(a_call.message.performative,
                               a_call.before[SentTo])
        /\ a_call.outcome = "ProtocolViolationError" =>
              a_conversations = a_call.before /\ ~a_call.handler_called

\* A send into a conversation that has messages was refused.
C24_Witness ==
    /\ Governed
    /\ Len(a_call.before[SentTo].messages) > 0
    /\ a_call.message.receiver \in a_agents
    /\ a_call.outcome = "ProtocolViolationError"

\* C25: a conversation of a registered protocol in which a message with a
\* terminal performative is recorded, sent or returned by a handler, has
\* status "completed" and ended_at set.
C25_TerminalCompletes ==
    \A c \in 1..Len(a_conversations) :
        /\ a_conversations[c].protocol \in Protocols
        /\ \E k \in 1..Len(a_conversations[c].messages) :
              is_terminal(a_conversations[c].protocol,
                          a_conversations[c].messages[k].performative)
        => /\ a_conversations[c].status = "completed"
           /\ a_conversations[c].ended_at # None

\* C29: the messages of a conversation of a registered protocol start with
\* an initial performative and every message after the first is a valid
\* transition from the one before it, whether sent or returned by a handler.
C29_RecordedFollowProtocol ==
    \A c \in 1..Len(a_conversations) :
        a_conversations[c].protocol \in Protocols =>
            \A k \in 1..Len(a_conversations[c].messages) :
                FollowsProtocol(a_conversations[c].messages[k].performative,
                    [a_conversations[c] EXCEPT
                        !.messages = SubSeq(@, 1, k - 1)])


(***************************************************************************)
(* JWT handler (tork/identity/jwt_handler.py) and the identity manager     *)
(* (tork/identity/manager.py) on one handler.  The clock counts hours and  *)
(* moves a day at a time; a token is its payload and the key that signed   *)
(* it, so that equal payloads under one key are the same token.            *)
(***************************************************************************)
MaxDays == 2    \* days the clock moves through

\* default_expiry_hours of JWTHandler, and extend_hours of refresh_token.
DefaultExpiryHours == 24

\* JWTHandler.secret_key
SecretKey == "secret"

AgentClaims(agent_id, permissions, issued_at, expires_at) ==
    [agent_id |-> agent_id, permissions |-> permissions,
     issued_at |-> issued_at, expires_at |-> expires_at]

\* jwt.encode(payload, key, algorithm)
JwtEncode(payload, key) == [payload |-> payload, signed_with |-> key]

\* JWTHandler.issue_token
issue_token(claims) == JwtEncode(claims, SecretKey)

\* jwt.decode(token, secret_key, verify_exp): the exception, or "ok".
JwtDecode(token, now) ==
    IF token.signed_with # SecretKey
    THEN "InvalidTokenError"
    ELSE IF token.payload.expires_at <= now
         THEN "ExpiredTokenError"
         ELSE "ok"

\* is_revoked answers False for every token.
is_revoked_never(revoked_tokens, token) == FALSE

\* JWTHandler.is_revoked
is_revoked(revoked_tokens, token) == token \in revoked_tokens

\* JWTHandler.verify_token: the exception raised, or "ok" with the claims.
verify_token(revoked_tokens, token, now) ==
    IF is_revoked(revoked_tokens, token)
    THEN "RevokedTokenError"
    ELSE JwtDecode(token, now)

\* JWTHandler.revoke_token
revoke_token(revoked_tokens, token) == revoked_tokens \cup {token}

\* How a call on the handler ended: the exception or "ok", the revoked set
\* afterwards and the token returned, if any.
JwtResult(outcome, revoked_tokens, returned) ==
    [outcome |-> outcome, revoked_tokens |-> revoked_tokens,
     returned |-> returned]

\* JWTHandler.refresh_token: every exception of verify_token is an
\* InvalidTokenError and is raised again as one.
refresh_token(revoked_tokens, token, extend_hours, now) ==
    IF verify_token(revoked_tokens, token, now) # "ok"
    THEN JwtResult("InvalidTokenError", revoked_tokens, None)
    ELSE JwtResult("ok", revoke_token(revoked_tokens, token),
            Some(issue_token(AgentClaims(token.payload.agent_id,
                                         token.payload.permissions,
                                         now, now + extend_hours))))

\* IdentityManager.update_permissions
update_permissions(revoked_tokens, token, permissions, now) ==
    IF verify_token(revoked_tokens, token, now) # "ok"
    THEN JwtResult("InvalidTokenError", revoked_tokens, None)
    ELSE JwtResult("ok", revoke_token(revoked_tokens, token),
            Some(issue_token(AgentClaims(token.payload.agent_id, permissions,
                                         now, now + DefaultExpiryHours))))

\* IdentityManager.register_agent
register_agent(agent_id, permissions, now) ==
    issue_token(AgentClaims(agent_id, permissions, now,
                            now + DefaultExpiryHours))

(***************************************************************************)
(* Inputs of the handler.                                                  *)
(***************************************************************************)
JwtAgents == {"agent-1"}

PermissionLists == {<<"read">>, <<"read", "write">>}

\* The times the clock shows.
Times == {DefaultExpiryHours * d : d \in 0..MaxDays}

\* The token strings callers present: those the handler can have issued,
\* and one signed with another key.
Tokens ==
    {register_agent(a, p, t) : a \in JwtAgents, p \in PermissionLists,
                               t \in Times}
    \cup {JwtEncode(AgentClaims("agent-1", <<"read">>, 0,
                                DefaultExpiryHours), "other")}

JwtInit ==
    /\ RedactorIdle
    /\ ReceiptIdle
    /\ EngineIdle
    /\ LuhnIdle
    /\ DictIdle
    /\ WorkflowIdle
    /\ RouterIdle
    /\ FlagIdle
    /\ j_now = 0
    /\ j_revoked_tokens = {}
    /\ j_call = NoCall

\* The record of a call on the handler or the manager.
JwtCall(op, token, result) ==
    [op |-> op, token |-> token, outcome |-> result.outcome,
     returned |-> result.returned]

\* manager.register_agent(agent_id, permissions)
RegisterIdentity ==
    /\ \E a \in JwtAgents, p \in PermissionLists :
          j_call' = JwtCall("register_agent", None,
                       JwtResult("ok", j_revoked_tokens,
                                 Some(register_agent(a, p, j_now))))
    /\ UNCHANGED <<j_now, j_revoked_tokens, not_jvars>>

\* handler.verify_token(token)
VerifyToken ==
    /\ \E token \in Tokens :
          j_call' = JwtCall("verify_token", Some(token),
                       JwtResult(verify_token(j_revoked_tokens, token, j_now),
                                 j_revoked_tokens, None))
    /\ UNCHANGED <<j_now, j_revoked_tokens, not_jvars>>

\* handler.revoke_token(token)
RevokeToken ==
    /\ \E token \in Tokens :
          /\ j_revoked_tokens' = revoke_token(j_revoked_tokens, token)
          /\ j_call' = JwtCall("revoke_token", Some(token),
                          JwtResult("ok", j_revoked_tokens', None))
    /\ UNCHANGED <<j_now, not_jvars>>

\* handler.refresh_token(token)
RefreshToken ==
    /\ \E token \in Tokens :
          LET result == refresh_token(j_revoked_tokens, token,
                                      DefaultExpiryHours, j_now)
          IN  /\ j_revoked_tokens' = result.revoked_tokens
              /\ j_call' = JwtCall("refresh_token", Some(token), result)
    /\ UNCHANGED <<j_now, not_jvars>>

\* manager.update_permissions(token, permissions)
UpdatePermissions ==
    /\ \E token \in Tokens, p \in PermissionLists :
          LET result == update_permissions(j_revoked_tokens, token, p, j_now)
          IN  /\ j_revoked_tokens' = result.revoked_tokens
              /\ j_call' = JwtCall("update_permissions", Some(token), result)
    /\ UNCHANGED <<j_now, not_jvars>>

\* A day passes.
Tick ==
    /\ j_now < DefaultExpiryHours * MaxDays
    /\ j_now' = j_now + DefaultExpiryHours
    /\ UNCHANGED <<j_revoked_tokens, j_call, not_jvars>>

JwtNext ==
    \/ RegisterIdentity
    \/ VerifyToken
    \/ RevokeToken
    \/ RefreshToken
    \/ UpdatePermissions
    \/ Tick

JwtSpec == JwtInit /\ [][JwtNext]_vars

(***************************************************************************)
(* Claims about the JWT handler.                                           *)
(***************************************************************************)
\* The step is a call that revokes its token: revoke_token, or a
\* refresh_token or update_permissions that returned a new token.
Revokes(token) ==
    /\ j_call' # NoCall
    /\ j_call'.op \in {"revoke_token", "refresh_token", "update_permissions"}
    /\ j_call'.outcome = "ok"
    /\ j_call'.token = Some(token)

\* C26: a token revoked by revoke_token, directly or through refresh_token
\* or update_permissions, is in the revoked set from then on: no step takes
\* a token out of the set, and verify_token of a token in the set raises
\* RevokedTokenError.
C26_RevocationPermanent ==
    [][/\ j_revoked_tokens \subseteq j_revoked_tokens'
       /\ \A token \in Tokens : Revokes(token) => token \in j_revoked_tokens'
       /\ \A token \in j_revoked_tokens :
             /\ j_call' # j_call
             /\ j_call'.op = "verify_token"
             /\ j_call'.token = Some(token)
             => j_call'.outcome = "RevokedTokenError"]_vars

\* verify_token refused a token that is signed with the handler's key and
\* has not expired, because it is in the revoked set.
C26_Witness ==
    /\ j_call # NoCall
    /\ j_call.op = "verify_token"
    /\ j_call.outcome = "RevokedTokenError"
    /\ JwtDecode(j_call.token.val, j_now) = "ok"
    /\ Cardinality(j_revoked_tokens) >= 2


(***************************************************************************)
(* Further claims about evaluate.                                          *)
(***************************************************************************)
\* The rules of the enabled policies, in the order evaluate visits them,
\* that match when checked alone against the payload as submitted.
MatchAlone(order) ==
    SelectSeqBy(order,
        [i \in 1..Len(order) |->
            check_rule(order[i].rule, TopOf(e_call.payload),
                       HeapOf(e_call.payload)) = "match"])

\* C27: the rules that matched during an evaluate call are the rules that
\* match when checked alone against the payload as submitted; a redaction
\* made by an earlier rule does not change whether a later rule matches.
C27_MatchOnSubmitted ==
    Returned => e_call.matched = MatchAlone(RulesByPriority(e_policies, Priorities))

\* The rules that matched and write a violation: deny and redact rules.
Writers(matched) ==
    SelectSeqBy(matched,
        [i \in 1..Len(matched) |-> matched[i].rule.action # "allow"])

\* C28: violations holds one entry for each deny rule and each redact rule
\* that matched, naming the policy and the rule's field, so that every field
\* a rule replaced by "[REDACTED]" is named in violations.
C28_ViolationsComplete ==
    Returned =>
        RuleViolations(e_call.result.violations) =
            [i \in 1..Len(Writers(e_call.matched)) |->
                ViolationOf(Writers(e_call.matched)[i])]


(***************************************************************************)
(* evaluate_with_redaction from several threads on one engine.  The method *)
(* takes no lock; a call is four steps: it reads enable_auto_redaction     *)
(* into original_auto_redaction, sets the flag, runs evaluate, and in the  *)
(* finally block writes original_auto_redaction back.  The steps of the    *)
(* calls interleave in any order.                                          *)
(***************************************************************************)
MaxCalls == 2       \* calls of evaluate_with_redaction in flight

Callers == 1..MaxCalls

FlagInit ==
    /\ RedactorIdle
    /\ ReceiptIdle
    /\ EngineIdle
    /\ LuhnIdle
    /\ DictIdle
    /\ WorkflowIdle
    /\ RouterIdle
    /\ JwtIdle
    /\ c_enable_auto_redaction \in BOOLEAN
    /\ c_initial = c_enable_auto_redaction
    /\ c_pc = [t \in Callers |-> "called"]
    /\ c_locals = [t \in Callers |->
                      [original_auto_redaction |-> None,
                       auto_redaction |-> None]]

\* original_auto_redaction = self.enable_auto_redaction
ReadFlag(t) ==
    /\ c_pc[t] = "called"
    /\ c_locals' = [c_locals EXCEPT ![t].original_auto_redaction =
                                        Some(c_enable_auto_redaction)]
    /\ c_pc' = [c_pc EXCEPT ![t] = "read"]
    /\ UNCHANGED <<c_enable_auto_redaction, c_initial, not_cvars>>

\* self.enable_auto_redaction = True
SetFlag(t) ==
    /\ c_pc[t] = "read"
    /\ c_enable_auto_redaction' = TRUE
    /\ c_pc' = [c_pc EXCEPT ![t] = "set"]
    /\ UNCHANGED <<c_initial, c_locals, not_cvars>>

\* return self.evaluate(request): evaluate returns or raises, with
\* auto-redaction on or off as the flag stands when evaluate tests it.
RunEvaluate(t) ==
    /\ c_pc[t] = "set"
    /\ \E outcome \in {"returned", "raised"} :
          c_pc' = [c_pc EXCEPT ![t] = outcome]
    /\ c_locals' = [c_locals EXCEPT ![t].auto_redaction =
                                        Some(c_enable_auto_redaction)]
    /\ UNCHANGED <<c_enable_auto_redaction, c_initial, not_cvars>>

\* finally: self.enable_auto_redaction = original_auto_redaction
Restore(t) ==
    /\ c_pc[t] \in {"returned", "raised"}
    /\ c_enable_auto_redaction' = c_locals[t].original_auto_redaction.val
    /\ c_pc' = [c_pc EXCEPT ![t] = "done"]
    /\ UNCHANGED <<c_initial, c_locals, not_cvars>>

FlagNext ==
    \E t \in Callers : ReadFlag(t) \/ SetFlag(t) \/ RunEvaluate(t) \/ Restore(t)

FlagSpec == FlagInit /\ [][FlagNext]_vars

\* C30: once every evaluate_with_redaction call has returned,
\* enable_auto_redaction is what it was before the first call began,
\* however the steps of the calls interleaved.
C30_FlagRestored ==
    (\A t \in Callers : c_pc[t] = "done") =>
        c_enable_auto_redaction = c_initial


====
